---- MODULE Spec2Model ----
(***************************************************************************)
(* A model of the news scraper's resolution + extraction pipeline:         *)
(*   - the article fetchers and their retry loops                          *)
(*       scrapeArticle            src/unnamed/part_001:636                  *)
(*       scrapeOriginalArticle    src/api/scrape.js:569                     *)
(*       scrapeOriginalArticle_p1 src/unnamed/part_001:108                  *)
(*       scrapeArticle_p0         src/unnamed/part_000:79                   *)
(*   - the query-string extraction extractActualUrl                        *)
(*   - the redirect resolvers resolveGoogleNewsUrl (two versions)          *)
(*   - the batch and single-URL orchestration.                             *)
(* Strings are sequences of tokens; a network answer is an input chosen    *)
(* anew at every GET.                                                      *)
(***************************************************************************)
EXTENDS Integers, Sequences, FiniteSets, TLC

VARIABLES
    op,         \* the operation this run performs
    url,        \* its input URL (a token sequence)
    pc,         \* position inside the operation
    attempt,    \* the retry loop's counter `attempt`
    gets,       \* number of GET requests issued so far (history)
    outcomes,   \* the answers the GETs received, in order (history)
    lastError,  \* the retry loop's `lastError`
    result,     \* what the operation returned or threw
    includeContent, \* batch mode: the includeContent / full_content flag
    discovery,  \* batch mode: where the candidates came from
    cands,      \* batch mode: the candidate list being processed
    idx,        \* batch mode: the loop index, from 1
    articles,   \* batch mode: the output list built so far
    calls,      \* single-URL mode: the resolver and extractor calls made (history)
    limit,      \* batch endpoints: parseInt(limit) of the request, 0 when there is none
    doc,        \* extraction: the document of the fetched page
    extracted   \* extraction: what the extractor made of it

fetchVars == <<attempt, gets, outcomes, lastError>>
batchVars == <<includeContent, discovery, cands, idx, articles, calls, limit, doc, extracted>>
vars == <<op, url, pc, attempt, gets, outcomes, lastError, result,
          includeContent, discovery, cands, idx, articles, calls, limit, doc, extracted>>

(***************************************************************************)
(* URLs as token sequences.                                                *)
(***************************************************************************)
Schemes == {"https://", "ftp://"}
AggHost == "news.google.com"
Hosts == {AggHost, "www.google.com", "www.gstatic.com", "example.com", "example.org"}

\* The texts a token contains, among those the code searches for with includes().
TokenIncludes(t) ==
    CASE t = AggHost -> {"news.google.com", "google.com", "news", ".com"}
      [] t = "www.google.com" -> {"google.com", ".com"}
      [] t = "www.gstatic.com" -> {"gstatic.com", ".com"}
      [] t = "example.com" -> {".com"}
      [] t = "/articles/" -> {"/articles/", "article"}
      [] t = "/rss/articles/" -> {"/articles/", "article", "rss"}
      [] t = "/rss-feed" -> {"rss"}
      [] OTHER -> {}

\* s.includes(needle), for a needle that lies within one token.
Includes(s, needle) == \E i \in 1..Len(s) : needle \in TokenIncludes(s[i])

\* s.includes(a + b), for a the end of one token and b the start of the next.
IncludesPair(s, a, b) == \E i \in 1..(Len(s) - 1) : s[i] = a /\ s[i + 1] \in b

\* new URL(s) succeeds: an absolute URL, scheme then host.
ParsesAsUrl(s) == Len(s) >= 2 /\ s[1] \in Schemes /\ s[2] \in Hosts

Min(S) == CHOOSE x \in S : \A y \in S : x <= y

\* The tokens that open a query parameter, and the parameter each names.
ParamMarkers == {"?url=", "?q=", "?x=", "&url=", "&q=", "&x="}
MarkerName(m) ==
    CASE m \in {"?url=", "&url="} -> "url"
      [] m \in {"?q=", "&q="} -> "q"
      [] OTHER -> "x"

\* urlObj.pathname: the tokens between the host and the query string.
Pathname(s) ==
    LET qs == {i \in 3..Len(s) : s[i] \in ParamMarkers}
    IN  SubSeq(s, 3, IF qs = {} THEN Len(s) ELSE Min(qs) - 1)

\* urlObj.pathname.includes('/articles/')
PathIncludesArticles(s) == Includes(Pathname(s), "/articles/")

\* The raw (still encoded) value of the first parameter called name; empty
\* when there is none.
RawParam(s, name) ==
    LET at == {i \in 3..Len(s) : s[i] \in ParamMarkers /\ MarkerName(s[i]) = name}
    IN  IF at = {} THEN <<>>
        ELSE LET i == Min(at)
                 nxt == {j \in (i + 1)..Len(s) : s[j] \in ParamMarkers}
             IN  SubSeq(s, i + 1, IF nxt = {} THEN Len(s) ELSE Min(nxt) - 1)

(***************************************************************************)
(* Percent-decoding. A raw value is a sequence over "%", "2", "5" (so that *)
(* %22, %25, %52, %55 are escapes and "%" before anything else is not),    *)
(* possibly led by the tokens of an encoded target URL.                    *)
(***************************************************************************)
HexDigits == {"2", "5"}
PctChar(a, b) ==
    CASE a = "2" /\ b = "5" -> "%"
      [] a = "2" /\ b = "2" -> "\""
      [] a = "5" /\ b = "2" -> "R"
      [] OTHER -> "U"

\* Tokens that stand for an encoded piece of a URL, and what they decode to.
EncodedTokens == {"https%3A%2F%2F", "%2Fa"}
DecodeToken(t) == IF t = "https%3A%2F%2F" THEN "https://" ELSE "/a"

IsEscapeAt(s, i) ==
    s[i] = "%" /\ i + 2 <= Len(s) /\ s[i + 1] \in HexDigits /\ s[i + 2] \in HexDigits

\* URLSearchParams' decoding of a value: every well-formed escape is
\* replaced, a "%" that opens none is kept.
RECURSIVE SearchParamsDecode(_)
SearchParamsDecode(s) ==
    IF s = <<>> THEN <<>>
    ELSE IF IsEscapeAt(s, 1)
    THEN <<PctChar(s[2], s[3])>> \o SearchParamsDecode(SubSeq(s, 4, Len(s)))
    ELSE IF s[1] \in EncodedTokens
    THEN <<DecodeToken(s[1])>> \o SearchParamsDecode(Tail(s))
    ELSE <<s[1]>> \o SearchParamsDecode(Tail(s))

\* decodeURIComponent is defined (does not throw URIError) on s: every "%"
\* opens a well-formed escape.
RECURSIVE DecodableURIComponent(_)
DecodableURIComponent(s) ==
    IF s = <<>> THEN TRUE
    ELSE IF s[1] = "%"
    THEN IsEscapeAt(s, 1) /\ DecodableURIComponent(SubSeq(s, 4, Len(s)))
    ELSE DecodableURIComponent(Tail(s))

\* decodeURIComponent(s), where it is defined.
decodeURIComponent(s) == SearchParamsDecode(s)

\* urlObj.searchParams.get(name); the empty value stands for null as well
\* (both are falsy).
SearchParamsGet(s, name) == SearchParamsDecode(RawParam(s, name))

(***************************************************************************)
(* extractActualUrl (src/unnamed/part_001:45-64, src/api/scrape.js:245-264)*)
(***************************************************************************)
extractActualUrl(googleUrl) ==
    IF ~ParsesAsUrl(googleUrl) THEN googleUrl
    ELSE IF PathIncludesArticles(googleUrl) THEN googleUrl
    ELSE LET u == SearchParamsGet(googleUrl, "url")
             actualUrl == IF u # <<>> THEN u ELSE SearchParamsGet(googleUrl, "q")
         IN  IF actualUrl = <<>> THEN googleUrl
             ELSE IF DecodableURIComponent(actualUrl) THEN decodeURIComponent(actualUrl)
             ELSE googleUrl

\* isGoogleNewsUrl (src/api/scrape.js:240-242): the text contains
\* 'news.google.com' or 'google.com/url?'.
isGoogleNewsUrl(s) ==
    \/ Includes(s, "news.google.com")
    \/ \E i \in 1..(Len(s) - 2) :
          s[i] = "www.google.com" /\ s[i + 1] = "/url" /\ s[i + 2] \in {"?url=", "?q=", "?x="}

(***************************************************************************)
(* Network answers and errors.                                             *)
(***************************************************************************)
NoStatus == 0
NoPage == [dataLen |-> 0, marker |-> FALSE, titleLen |-> 0, contentLen |-> 0]

\* What a 2xx answer's document yields: the length of response.data, whether
\* the body text holds a blocking marker, the length of the extracted title
\* and of the extracted content.
Pages ==
    {p \in [dataLen : {50, 500}, marker : BOOLEAN, titleLen : {0, 20},
            contentLen : {0, 60, 250}] :
        p.titleLen + p.contentLen <= p.dataLen}

HttpErrorStatuses == {403, 404, 500}

Responses ==
    {[kind |-> "timeout", status |-> NoStatus, page |-> NoPage],
     [kind |-> "neterr", status |-> NoStatus, page |-> NoPage]}
    \cup {[kind |-> "http", status |-> s, page |-> NoPage] : s \in HttpErrorStatuses}
    \cup {[kind |-> "http", status |-> 200, page |-> p] : p \in Pages}

\* An Error object: message, error.response.status (NoStatus when the error
\* has no response), error.code, and the prefix a wrapping put before the message.
Err(msg, status, code) == [prefix |-> "", msg |-> msg, status |-> status, code |-> code]
NoError == Err("", NoStatus, "")

\* The error axios rejects with for an answer outside validateStatus, a
\* timeout or a connection failure.
AxiosError(resp) ==
    CASE resp.kind = "timeout" -> Err("timeout of 15000ms exceeded", NoStatus, "ECONNABORTED")
      [] resp.kind = "neterr" -> Err("getaddrinfo ENOTFOUND", NoStatus, "ENOTFOUND")
      [] OTHER -> Err("Request failed with status code", resp.status, "ERR_BAD_RESPONSE")

InvalidUrlError == Err("Invalid URL", NoStatus, "ERR_INVALID_URL")

Ok(data) == [ok |-> TRUE, data |-> data, err |-> NoError]
Fail(e) == [ok |-> FALSE, data |-> NoPage, err |-> e]

NoResult == [kind |-> "none", data |-> NoPage, err |-> NoError]

\* No document, and no extraction result.
NoDocument == [titleLen |-> 0, paras |-> <<>>, imgs |-> <<>>]
NotExtracted == [kind |-> "none", title |-> 0, content |-> 0, images |-> <<>>]

\* The batch variables of a run that processes no batch.
BatchIdle ==
    /\ includeContent = FALSE
    /\ discovery = "none"
    /\ cands = <<>>
    /\ idx = 1
    /\ articles = <<>>
    /\ calls = <<>>
    /\ limit = 0
    /\ doc = NoDocument
    /\ extracted = NotExtracted

(***************************************************************************)
(* scrapeArticle, the generic scraper with retry logic                     *)
(* (src/unnamed/part_001:636-748).                                         *)
(***************************************************************************)
\* A retry bound larger by one.
maxRetries_OneMore(fn) ==
    CASE fn = "scrapeArticle" -> 4
      [] fn = "scrapeOriginalArticle" -> 3
      [] fn = "scrapeOriginalArticle_p1" -> 3
      [] OTHER -> 1

\* const maxRetries of each fetcher.
maxRetries(fn) ==
    CASE fn = "scrapeArticle" -> 3
      [] fn = "scrapeOriginalArticle" -> 2
      [] fn = "scrapeOriginalArticle_p1" -> 2
      [] OTHER -> 1

\* validateStatus of scrapeArticle's GET: 2xx only.
ArticleValidateStatus(status) == status >= 200 /\ status < 300

\* The try block without the scan for blocking markers.
ArticleBody_NoMarkerScan(resp) ==
    IF resp.kind # "http" \/ ~ArticleValidateStatus(resp.status)
    THEN Fail(AxiosError(resp))
    ELSE IF resp.page.dataLen < 100
    THEN Fail(Err("Received empty or invalid response", NoStatus, ""))
    ELSE IF resp.page.titleLen = 0 /\ resp.page.contentLen = 0
    THEN Fail(Err("No meaningful content found", NoStatus, ""))
    ELSE Ok(resp.page)

\* The try block after the GET: the checks on the answer and the extraction.
ArticleBody(resp) ==
    IF resp.kind # "http" \/ ~ArticleValidateStatus(resp.status)
    THEN Fail(AxiosError(resp))
    ELSE IF resp.page.dataLen < 100
    THEN Fail(Err("Received empty or invalid response", NoStatus, ""))
    ELSE IF resp.page.marker
    THEN Fail(Err("Access blocked by website", NoStatus, ""))
    ELSE IF resp.page.titleLen = 0 /\ resp.page.contentLen = 0
    THEN Fail(Err("No meaningful content found", NoStatus, ""))
    ELSE Ok(resp.page)

\* "Don't retry on certain errors": the catch block's break condition.
ArticleNonRetriable(e) == e.status = 404 \/ e.msg = "Invalid URL"

\* The error thrown after the loop: a new Error around lastError.message.
ArticleFinalError(e) ==
    [prefix |-> "Scraping failed after 3 attempts", msg |-> e.msg,
     status |-> NoStatus, code |-> ""]

\* The attempt count the final error's message states: the template of
\* line 747 interpolates maxRetries.
StatedAttempts(e) ==
    IF e.prefix = "Scraping failed after 3 attempts" THEN maxRetries("scrapeArticle") ELSE 0

\* scrapeArticle runs on its own or under app.get('/api/scrape') of
\* part_001, to whose handler it returns or throws.
ArticleCallers == {"scrapeArticle", "apiScrape_p1"}
ArticleReturnPc == IF op = "scrapeArticle" THEN "done" ELSE "handler"

\* One pass of the loop body. getRequestHeaders(url) parses the URL before
\* the GET is issued and throws 'Invalid URL' into the catch block.
scrapeArticleAttempt ==
    /\ op \in ArticleCallers /\ pc = "loop" /\ attempt <= maxRetries("scrapeArticle")
    /\ IF ~ParsesAsUrl(url)
       THEN /\ lastError' = InvalidUrlError
            /\ pc' = "throw"
            /\ UNCHANGED <<attempt, gets, outcomes, result>>
       ELSE \E resp \in Responses :
            LET r == ArticleBody(resp) IN
            /\ gets' = gets + 1
            /\ outcomes' = Append(outcomes, resp)
            /\ IF r.ok
               THEN /\ result' = [kind |-> "success", data |-> r.data, err |-> NoError]
                    /\ pc' = ArticleReturnPc
                    /\ UNCHANGED <<attempt, lastError>>
               ELSE /\ lastError' = r.err
                    /\ IF ArticleNonRetriable(r.err)
                       THEN pc' = "throw" /\ UNCHANGED attempt
                       ELSE attempt' = attempt + 1 /\ UNCHANGED pc
                    /\ UNCHANGED result
    /\ UNCHANGED <<op, url>>
    /\ UNCHANGED batchVars

scrapeArticleThrow ==
    /\ op \in ArticleCallers
    /\ pc = "throw" \/ (pc = "loop" /\ attempt > maxRetries("scrapeArticle"))
    /\ result' = [kind |-> "error", data |-> NoPage, err |-> ArticleFinalError(lastError)]
    /\ pc' = ArticleReturnPc
    /\ UNCHANGED <<op, url, attempt, gets, outcomes, lastError>>
    /\ UNCHANGED batchVars

(***************************************************************************)
(* scrapeOriginalArticle, the Google News scraper's fetcher                *)
(* (src/api/scrape.js:569-765).                                            *)
(***************************************************************************)
\* axios's default validateStatus: 2xx only.
DefaultValidateStatus(status) == status >= 200 /\ status < 300

\* The try block after the GET.
OriginalBody(resp) ==
    IF resp.kind # "http" \/ ~DefaultValidateStatus(resp.status)
    THEN Fail(AxiosError(resp))
    ELSE IF resp.page.titleLen = 0 /\ resp.page.contentLen < 100
    THEN Fail(Err("Insufficient content extracted", NoStatus, ""))
    ELSE Ok(resp.page)

\* One pass of the loop body. axios rejects an unparsable URL without
\* sending a request.
scrapeOriginalArticleAttempt ==
    /\ op = "scrapeOriginalArticle" /\ pc = "loop" /\ attempt <= maxRetries(op)
    /\ IF ~ParsesAsUrl(url)
       THEN /\ lastError' = InvalidUrlError
            /\ attempt' = attempt + 1
            /\ UNCHANGED <<pc, gets, outcomes, result>>
       ELSE \E resp \in Responses :
            LET r == OriginalBody(resp) IN
            /\ gets' = gets + 1
            /\ outcomes' = Append(outcomes, resp)
            /\ IF r.ok
               THEN /\ result' = [kind |-> "success", data |-> r.data, err |-> NoError]
                    /\ pc' = "done"
                    /\ UNCHANGED <<attempt, lastError>>
               ELSE /\ lastError' = r.err
                    /\ attempt' = attempt + 1
                    /\ UNCHANGED <<pc, result>>
    /\ UNCHANGED <<op, url>>
    /\ UNCHANGED batchVars

\* throw lastError
scrapeOriginalArticleThrow ==
    /\ op = "scrapeOriginalArticle" /\ pc = "loop" /\ attempt > maxRetries(op)
    /\ result' = [kind |-> "error", data |-> NoPage, err |-> lastError]
    /\ pc' = "done"
    /\ UNCHANGED <<op, url, attempt, gets, outcomes, lastError>>
    /\ UNCHANGED batchVars

(***************************************************************************)
(* scrapeOriginalArticle of the first Google News scraper                  *)
(* (src/unnamed/part_001:108-224): the same loop, no content validation.   *)
(***************************************************************************)
OriginalBody_p1(resp) ==
    IF resp.kind # "http" \/ ~DefaultValidateStatus(resp.status)
    THEN Fail(AxiosError(resp))
    ELSE Ok(resp.page)

scrapeOriginalArticleAttempt_p1 ==
    /\ op = "scrapeOriginalArticle_p1" /\ pc = "loop" /\ attempt <= maxRetries(op)
    /\ IF ~ParsesAsUrl(url)
       THEN /\ lastError' = InvalidUrlError
            /\ attempt' = attempt + 1
            /\ UNCHANGED <<pc, gets, outcomes, result>>
       ELSE \E resp \in Responses :
            LET r == OriginalBody_p1(resp) IN
            /\ gets' = gets + 1
            /\ outcomes' = Append(outcomes, resp)
            /\ IF r.ok
               THEN /\ result' = [kind |-> "success", data |-> r.data, err |-> NoError]
                    /\ pc' = "done"
                    /\ UNCHANGED <<attempt, lastError>>
               ELSE /\ lastError' = r.err
                    /\ attempt' = attempt + 1
                    /\ UNCHANGED <<pc, result>>
    /\ UNCHANGED <<op, url>>
    /\ UNCHANGED batchVars

scrapeOriginalArticleThrow_p1 ==
    /\ op = "scrapeOriginalArticle_p1" /\ pc = "loop" /\ attempt > maxRetries(op)
    /\ result' = [kind |-> "error", data |-> NoPage, err |-> lastError]
    /\ pc' = "done"
    /\ UNCHANGED <<op, url, attempt, gets, outcomes, lastError>>
    /\ UNCHANGED batchVars

(***************************************************************************)
(* scrapeArticle of the news API (src/unnamed/part_000:79-201): one GET,   *)
(* no retry; a failure is returned as an {error, url} object.              *)
(***************************************************************************)
\* The try block after the GET: every 2xx answer yields a record, its title
\* and content replaced by fixed texts when empty.
ArticleBody_p0(resp) ==
    IF resp.kind # "http" \/ ~DefaultValidateStatus(resp.status)
    THEN Fail(AxiosError(resp))
    ELSE Ok(resp.page)

\* The catch block's return value: {error: 'Scraping failed: ' + message, url}.
ArticleReturnedError_p0(e) ==
    [prefix |-> "Scraping failed", msg |-> e.msg, status |-> NoStatus, code |-> ""]

scrapeArticleCall_p0 ==
    /\ op = "scrapeArticle_p0" /\ pc = "loop"
    /\ IF ~ParsesAsUrl(url)
       THEN /\ lastError' = InvalidUrlError
            /\ result' = [kind |-> "returned_error", data |-> NoPage,
                          err |-> ArticleReturnedError_p0(InvalidUrlError)]
            /\ UNCHANGED <<gets, outcomes>>
       ELSE \E resp \in Responses :
            LET r == ArticleBody_p0(resp) IN
            /\ gets' = gets + 1
            /\ outcomes' = Append(outcomes, resp)
            /\ IF r.ok
               THEN /\ result' = [kind |-> "success", data |-> r.data, err |-> NoError]
                    /\ UNCHANGED lastError
               ELSE /\ lastError' = r.err
                    /\ result' = [kind |-> "returned_error", data |-> NoPage,
                                  err |-> ArticleReturnedError_p0(r.err)]
    /\ pc' = "done"
    /\ UNCHANGED <<op, url, attempt>>
    /\ UNCHANGED batchVars

(***************************************************************************)
(* The fetchers, each called once on one URL.                              *)
(***************************************************************************)
FetchOps == {"scrapeArticle", "scrapeOriginalArticle", "scrapeOriginalArticle_p1",
             "scrapeArticle_p0"}

FetchUrls == {<<"https://", "example.com", "/a">>, <<"/a">>}

FetchInit ==
    /\ op \in FetchOps
    /\ url \in FetchUrls
    /\ pc = "loop"
    /\ attempt = 1
    /\ gets = 0
    /\ outcomes = <<>>
    /\ lastError = NoError
    /\ result = NoResult
    /\ BatchIdle

FetchNext ==
    \/ scrapeArticleAttempt
    \/ scrapeArticleThrow
    \/ scrapeOriginalArticleAttempt
    \/ scrapeOriginalArticleThrow
    \/ scrapeOriginalArticleAttempt_p1
    \/ scrapeOriginalArticleThrow_p1
    \/ scrapeArticleCall_p0

FetchSpec == FetchInit /\ [][FetchNext]_vars

\* Every step of a call is eventually taken: an await either resolves or rejects.
FairFetchSpec == FetchSpec /\ WF_vars(FetchNext)

(***************************************************************************)
(* Claims about the fetchers.                                              *)
(***************************************************************************)
LastOutcome == outcomes[Len(outcomes)]

\* A blocked answer: status 403, or a 2xx document whose body text holds a
\* blocking marker.
Blocked(resp) ==
    resp.kind = "http" /\ (resp.status = 403 \/ (resp.status = 200 /\ resp.page.marker))

\* C1: an article fetch (scrapeArticle, scrapeOriginalArticle) whose first
\* GET is answered 404 issues no second GET.
C1_NoRetryAfter404 ==
    (op \in {"scrapeArticle", "scrapeOriginalArticle"}
        /\ Len(outcomes) >= 1 /\ outcomes[1].status = 404)
    => gets = 1

\* C2: one call of scrapeArticle issues at most 3 GETs, one call of
\* scrapeOriginalArticle at most 2, and every call ends with a result or an error.
C2_BoundedAndTerminates ==
    /\ [](/\ op = "scrapeArticle" => gets <= 3
          /\ op \in {"scrapeOriginalArticle", "scrapeOriginalArticle_p1"} => gets <= 2
          /\ pc = "done" => result.kind # "none")
    /\ <>(pc = "done")

C2_Witness ==
    /\ op = "scrapeArticle" /\ pc = "done" /\ gets = 3 /\ result.kind = "error"
    /\ outcomes[1].kind = "timeout" /\ outcomes[2].status = 403

\* C3: when every attempt failed, the call ends in an error that carries the
\* last attempt's error with its HTTP status, never in a returned value.
C3_FinalErrorCarriesLast ==
    (pc = "done" /\ op \in {"scrapeArticle", "scrapeOriginalArticle"}
        /\ result.kind # "success")
    => /\ result.kind = "error"
       /\ result.err.msg = lastError.msg
       /\ result.err.status = lastError.status

\* C4: in scrapeArticle a blocked answer is never the source of a success,
\* is followed by another attempt while fewer than 3 were made, and is the
\* final error's cause only once 3 GETs were made.
C4_BlockedRetriedToBound ==
    (op = "scrapeArticle" /\ Len(outcomes) >= 1 /\ Blocked(LastOutcome))
    => /\ result.kind # "success"
       /\ lastError.msg \in {"Access blocked by website",
                             "Request failed with status code",
                             "Received empty or invalid response"}
       /\ (pc \in {"throw", "done"} => gets = 3)
       /\ (pc = "loop" => attempt = gets + 1)

C4_Witness ==
    /\ op = "scrapeArticle" /\ pc = "done" /\ gets = 3 /\ result.kind = "error"
    /\ outcomes[1].status = 200 /\ outcomes[1].page.marker /\ outcomes[1].page.dataLen >= 100
    /\ outcomes[2].status = 403
    /\ outcomes[3].status = 200 /\ outcomes[3].page.marker /\ outcomes[3].page.dataLen >= 100

(***************************************************************************)
(* The query-string extraction applied to one link.                        *)
(***************************************************************************)
MaxTail == 5

SeqsUpTo(S, n) == UNION {[1..k -> S] : k \in 0..n}

\* https%3A%2F%2Fexample.com%2Fa
EncodedTarget == <<"https%3A%2F%2F", "example.com", "%2Fa">>

RawValues == {pre \o t : pre \in {<<>>, EncodedTarget}, t \in SeqsUpTo({"%", "2", "5"}, MaxTail)}

QueryStrings ==
    {<<>>} \cup {<<m>> \o v \o more : m \in {"?url=", "?q=", "?x="}, v \in RawValues,
                                     more \in {<<>>, <<"&q=", "2">>}}

UrlInputs ==
    {<<"https://", h>> \o path \o q :
        h \in {AggHost, "www.google.com", "example.com"},
        path \in {<<"/redirect">>, <<"/articles/", "2">>}, q \in QueryStrings}
    \cup {<<"/redirect", "?url=", "2">>}

extractActualUrlCall ==
    /\ op = "extractActualUrl" /\ pc = "start"
    /\ result' = [kind |-> "url", value |-> extractActualUrl(url)]
    /\ pc' = "done"
    /\ UNCHANGED <<op, url, attempt, gets, outcomes, lastError>>
    /\ UNCHANGED batchVars

\* Applying the extraction to its own result.
extractActualUrlAgain ==
    /\ op = "extractActualUrl" /\ pc = "done"
    /\ result' = [kind |-> "url", value |-> extractActualUrl(result.value)]
    /\ pc' = "done2"
    /\ UNCHANGED <<op, url, attempt, gets, outcomes, lastError>>
    /\ UNCHANGED batchVars

UrlInit ==
    /\ op = "extractActualUrl"
    /\ url \in UrlInputs
    /\ pc = "start"
    /\ attempt = 1
    /\ gets = 0
    /\ outcomes = <<>>
    /\ lastError = NoError
    /\ result = NoResult
    /\ BatchIdle

UrlNext == extractActualUrlCall \/ extractActualUrlAgain

UrlSpec == UrlInit /\ [][UrlNext]_vars

\* The link is hosted by the aggregator.
AggregatorHosted(s) == ParsesAsUrl(s) /\ s[2] \in {AggHost, "www.google.com"}

\* The value of the link's target parameter (url=, else q=), decoded once.
TargetDecodedOnce(s) ==
    IF RawParam(s, "url") # <<>> THEN SearchParamsDecode(RawParam(s, "url"))
    ELSE SearchParamsDecode(RawParam(s, "q"))

\* The link's url= parameter holds an encoded URL, every "%" of it opening
\* an escape.
WellEncodedTarget(s) ==
    LET raw == RawParam(s, "url")
    IN  /\ Len(raw) >= 3 /\ SubSeq(raw, 1, 3) = EncodedTarget
        /\ DecodableURIComponent(raw)

\* C6: for an aggregator link that carries its target in a url= or q=
\* parameter, the extraction returns the target percent-decoded once, and
\* issues no GET.
C6_TargetDecodedOnce ==
    (pc = "done" /\ op = "extractActualUrl" /\ AggregatorHosted(url)
        /\ ~PathIncludesArticles(url) /\ WellEncodedTarget(url))
    => (result.value = TargetDecodedOnce(url) /\ gets = 0)

\* C7: a URL that is not hosted by the aggregator comes back unchanged,
\* whatever its path and query string, and no GET is issued.
C7_CanonicalUnchanged ==
    (pc \in {"done", "done2"} /\ op = "extractActualUrl" /\ ParsesAsUrl(url)
        /\ ~isGoogleNewsUrl(url) /\ ~AggregatorHosted(url))
    => (result.value = url /\ gets = 0)

(***************************************************************************)
(* The redirect resolvers.                                                 *)
(***************************************************************************)
NoUrl == <<>>

\* URLs an answer may name in a header, a tag or a script.
ForeignUrl == <<"https://", "example.com", "/a">>
ForeignNoKeyword == <<"https://", "example.org", "/a">>
StaticUrl == <<"https://", "www.gstatic.com", "/a">>
AggUrl == <<"https://", AggHost, "/articles/", "2">>
RelativeUrl == <<"/a">>
MalformedUrl == <<"https://", "exa mple.com">>

\* new URL(x, base) is defined: x is absolute and parses, or x is relative
\* and base parses.
ResolvableAgainst(x, base) ==
    IF x # <<>> /\ x[1] \in Schemes THEN ParsesAsUrl(x)
    ELSE x # <<>> /\ ParsesAsUrl(base)

\* new URL(x, base).href, where it is defined; the serializer gives an
\* empty path as "/".
Href(x, base) ==
    LET abs == IF x[1] \in Schemes THEN x ELSE SubSeq(base, 1, 2) \o x
    IN  IF Len(abs) = 2 THEN abs \o <<"/">> ELSE abs

\* What answers the resolver's GET (maxRedirects 0): a timeout, a
\* connection failure, or a status with an optional Location header and,
\* when the body is an HTML string, what the document holds: the url of a
\* meta refresh, the canonical link, the URLs in script text and the target
\* of a window.location assignment.
ResolverStatuses == {200, 302, 404}
ResolverDocs ==
    {[html |-> FALSE, meta |-> NoUrl, canonical |-> NoUrl, scripts |-> <<>>, winloc |-> NoUrl]}
    \cup [html : {TRUE}, meta : {NoUrl, ForeignUrl, AggUrl},
          canonical : {NoUrl, ForeignUrl, AggUrl},
          scripts : {<<>>, <<StaticUrl, ForeignUrl>>, <<ForeignNoKeyword>>},
          winloc : {NoUrl, ForeignUrl}]
NoDoc == [html |-> FALSE, meta |-> NoUrl, canonical |-> NoUrl, scripts |-> <<>>, winloc |-> NoUrl]

ResolverResponses ==
    {[kind |-> k, status |-> NoStatus, location |-> NoUrl, doc |-> NoDoc] :
        k \in {"timeout", "neterr"}}
    \cup [kind : {"http"}, status : ResolverStatuses,
          location : {NoUrl, ForeignUrl, AggUrl, RelativeUrl, MalformedUrl},
          doc : ResolverDocs]

\* validateStatus of both resolvers: 200..399.
ResolverValidateStatus(status) == status >= 200 /\ status < 400

Returned(u) == [kind |-> "url", value |-> u]
Threw(msg) == [kind |-> "threw", value |-> <<msg>>]

\* decodeGoogleNewsUrl (src/api/scrape.js:267-300): for a
\* news.google.com/rss/articles/ link, the first http(s) URL in the
\* percent-decoded article id; otherwise, or when the id does not decode or
\* holds no URL, the link itself.
decodeGoogleNewsUrl(encodedUrl) ==
    IF ~IncludesPair(encodedUrl, AggHost, {"/rss/articles/"}) THEN encodedUrl
    ELSE LET at == Min({i \in 1..Len(encodedUrl) : "/articles/" \in TokenIncludes(encodedUrl[i])})
             rest == SubSeq(encodedUrl, at + 1, Len(encodedUrl))
             q == {j \in 1..Len(rest) : rest[j] \in ParamMarkers}
             encodedPart == SubSeq(rest, 1, IF q = {} THEN Len(rest) ELSE Min(q) - 1)
         IN  IF ~DecodableURIComponent(encodedPart) THEN encodedUrl
             ELSE LET decoded == decodeURIComponent(encodedPart)
                      starts == {i \in 1..Len(decoded) : decoded[i] = "https://"}
                  IN  IF starts = {} THEN encodedUrl
                      ELSE SubSeq(decoded, Min(starts), Len(decoded))

\* The first script URL that passes the keyword filter; NoUrl when none does.
FirstScriptUrl(scripts) ==
    LET good == {i \in 1..Len(scripts) :
                    /\ ~Includes(scripts[i], "google.com")
                    /\ ~Includes(scripts[i], "gstatic.com")
                    /\ \/ Includes(scripts[i], "news")
                       \/ Includes(scripts[i], "article")
                       \/ Includes(scripts[i], ".com")}
    IN  IF good = {} THEN NoUrl ELSE scripts[Min(good)]

\* resolveGoogleNewsUrl (src/api/scrape.js:303-372), given the answer to
\* its GET. The GET is issued only when the decoding step returned nothing.
DecodedWithoutGet(googleUrl) ==
    LET decodedUrl == decodeGoogleNewsUrl(googleUrl)
    IN  decodedUrl # googleUrl /\ ~Includes(decodedUrl, "news.google.com")

resolveGoogleNewsUrl(googleUrl, resp) ==
    IF DecodedWithoutGet(googleUrl) THEN Returned(decodeGoogleNewsUrl(googleUrl))
    ELSE IF ~ParsesAsUrl(googleUrl) \/ resp.kind # "http"
    THEN Returned(googleUrl)
    ELSE IF ~ResolverValidateStatus(resp.status)
    THEN \* the catch block
         IF resp.location # NoUrl /\ ~Includes(resp.location, "news.google.com")
         THEN Returned(resp.location)
         ELSE Returned(googleUrl)
    ELSE IF resp.location # NoUrl /\ ~Includes(resp.location, "news.google.com")
    THEN Returned(resp.location)
    ELSE IF ~resp.doc.html THEN Returned(googleUrl)
    ELSE IF resp.doc.meta # NoUrl /\ ~Includes(resp.doc.meta, "news.google.com")
    THEN Returned(resp.doc.meta)
    ELSE IF resp.doc.canonical # NoUrl /\ ~Includes(resp.doc.canonical, "news.google.com")
    THEN Returned(resp.doc.canonical)
    ELSE IF FirstScriptUrl(resp.doc.scripts) # NoUrl
    THEN Returned(FirstScriptUrl(resp.doc.scripts))
    ELSE Returned(googleUrl)

\* resolveGoogleNewsUrl of the news API (src/unnamed/part_000:37-76), given
\* the answer to its GET. new URL(...) inside the try block throws into the
\* catch block, which then finds no error.response; new URL(...) inside the
\* catch block throws out of the function.
resolveGoogleNewsUrl_p0(googleUrl, resp) ==
    IF ~ParsesAsUrl(googleUrl) \/ resp.kind # "http"
    THEN Returned(googleUrl)
    ELSE IF ~ResolverValidateStatus(resp.status)
    THEN \* the catch block
         IF resp.location = NoUrl THEN Returned(googleUrl)
         ELSE IF ResolvableAgainst(resp.location, googleUrl)
         THEN Returned(Href(resp.location, googleUrl))
         ELSE Threw("Invalid URL")
    ELSE IF resp.status >= 300 /\ resp.status < 400 /\ resp.location # NoUrl
    THEN IF ResolvableAgainst(resp.location, googleUrl)
         THEN Returned(Href(resp.location, googleUrl))
         ELSE Returned(googleUrl)
    ELSE IF resp.doc.meta # NoUrl
    THEN IF ResolvableAgainst(resp.doc.meta, googleUrl)
         THEN Returned(Href(resp.doc.meta, googleUrl))
         ELSE Returned(googleUrl)
    ELSE IF resp.doc.winloc # NoUrl
    THEN IF ResolvableAgainst(resp.doc.winloc, googleUrl)
         THEN Returned(Href(resp.doc.winloc, googleUrl))
         ELSE Returned(googleUrl)
    ELSE Returned(googleUrl)

\* One call of each resolver on one link.
resolveGoogleNewsUrlCall ==
    /\ op = "resolveGoogleNewsUrl" /\ pc = "start"
    /\ IF DecodedWithoutGet(url) \/ ~ParsesAsUrl(url)
       THEN /\ result' = resolveGoogleNewsUrl(url, [kind |-> "neterr"])
            /\ UNCHANGED <<gets, outcomes>>
       ELSE \E resp \in ResolverResponses :
            /\ gets' = gets + 1
            /\ outcomes' = Append(outcomes, resp)
            /\ result' = resolveGoogleNewsUrl(url, resp)
    /\ pc' = "done"
    /\ UNCHANGED <<op, url, attempt, lastError>>
    /\ UNCHANGED batchVars

resolveGoogleNewsUrlCall_p0 ==
    /\ op = "resolveGoogleNewsUrl_p0" /\ pc = "start"
    /\ IF ~ParsesAsUrl(url)
       THEN /\ result' = resolveGoogleNewsUrl_p0(url, [kind |-> "neterr"])
            /\ UNCHANGED <<gets, outcomes>>
       ELSE \E resp \in ResolverResponses :
            /\ gets' = gets + 1
            /\ outcomes' = Append(outcomes, resp)
            /\ result' = resolveGoogleNewsUrl_p0(url, resp)
    /\ pc' = "done"
    /\ UNCHANGED <<op, url, attempt, lastError>>
    /\ UNCHANGED batchVars

\* The links a resolver is given: article links of the aggregator (the id
\* opaque, holding an encoded URL, or not decodable), a publisher's URL and
\* a text that is no URL.
ArticleLink == <<"https://", AggHost, "/articles/", "2">>
RssLink == <<"https://", AggHost, "/rss/articles/", "2", "?x=", "5">>
RssLinkWithUrl == <<"https://", AggHost, "/rss/articles/"  >> \o EncodedTarget
RssLinkBadId == <<"https://", AggHost, "/rss/articles/", "%", "?x=", "5">>
ResolverLinks == {ArticleLink, RssLink, RssLinkWithUrl, RssLinkBadId, ForeignUrl, RelativeUrl}

ResolveInit ==
    /\ op \in {"resolveGoogleNewsUrl", "resolveGoogleNewsUrl_p0"}
    /\ url \in ResolverLinks
    /\ pc = "start"
    /\ attempt = 1
    /\ gets = 0
    /\ outcomes = <<>>
    /\ lastError = NoError
    /\ result = NoResult
    /\ BatchIdle

ResolveNext == resolveGoogleNewsUrlCall \/ resolveGoogleNewsUrlCall_p0

ResolveSpec == ResolveInit /\ [][ResolveNext]_vars

\* C5: resolveGoogleNewsUrl never throws: whatever the link and the answer,
\* it returns a URL.
C5_ResolverNeverThrows ==
    (pc = "done" /\ op \in {"resolveGoogleNewsUrl", "resolveGoogleNewsUrl_p0"})
    => result.kind = "url"

(***************************************************************************)
(* Batch mode: getGoogleNewsRSS (src/api/scrape.js:421-566).               *)
(***************************************************************************)
MaxItems == 3
FeedCap == 5

\* scrapeOriginalArticle as one call: the loop of scrapeOriginalArticleAttempt
\* run on the answers fs[1], fs[2], ... to its successive GETs.
RECURSIVE OriginalLoop(_, _, _, _)
OriginalLoop(u, fs, att, last) ==
    IF att > maxRetries("scrapeOriginalArticle")
    THEN [kind |-> "error", data |-> NoPage, err |-> last]
    ELSE IF ~ParsesAsUrl(u)
    THEN OriginalLoop(u, fs, att + 1, InvalidUrlError)
    ELSE LET r == OriginalBody(fs[att])
         IN  IF r.ok THEN [kind |-> "success", data |-> r.data, err |-> NoError]
             ELSE OriginalLoop(u, fs, att + 1, r.err)

scrapeOriginalArticle(u, fs) == OriginalLoop(u, fs, 1, NoError)

\* The title of an extraction result: `title || null`, "" standing for null.
ExtractedTitle(page) == IF page.titleLen > 0 THEN "extracted title" ELSE ""

\* An entry of the output list. "" stands for null in title and error,
\* NoUrl in resolved_url, 0 in content. resolverOut and extract record what
\* the item's processing did (history): the resolver's output, and whether
\* the extractor was not called ("none"), succeeded ("ok") or "failed".
Entry(title, link, resolved, content, error, out, extract) ==
    [title |-> title, original_link |-> link, resolved_url |-> resolved,
     content |-> content, error |-> error, resolverOut |-> out, extract |-> extract]

\* The answers drawn for the GETs of one item.
GoodPage == [dataLen |-> 500, marker |-> FALSE, titleLen |-> 20, contentLen |-> 250]
ThinPage == [dataLen |-> 500, marker |-> FALSE, titleLen |-> 0, contentLen |-> 60]
TitleOnlyPage == [dataLen |-> 500, marker |-> FALSE, titleLen |-> 20, contentLen |-> 0]
NoTitlePage == [dataLen |-> 500, marker |-> FALSE, titleLen |-> 0, contentLen |-> 250]
ItemFetchResponses ==
    {[kind |-> "http", status |-> 200, page |-> GoodPage],
     [kind |-> "http", status |-> 200, page |-> ThinPage],
     [kind |-> "http", status |-> 200, page |-> TitleOnlyPage],
     [kind |-> "http", status |-> 200, page |-> NoTitlePage],
     [kind |-> "http", status |-> 403, page |-> NoPage]}
ItemFetchRuns == [1..2 -> ItemFetchResponses]
ItemResolverResponses ==
    {[kind |-> "timeout", status |-> NoStatus, location |-> NoUrl, doc |-> NoDoc],
     [kind |-> "http", status |-> 302, location |-> ForeignUrl, doc |-> NoDoc],
     [kind |-> "http", status |-> 302, location |-> RelativeUrl, doc |-> NoDoc],
     [kind |-> "http", status |-> 404, location |-> MalformedUrl, doc |-> NoDoc],
     [kind |-> "http", status |-> 200, location |-> NoUrl, doc |-> NoDoc]}

\* A first loop that drops the item whose extraction failed.
SearchItemEntries_DropOnFailure(article, rresp, fs) ==
    LET resolvedUrl == resolveGoogleNewsUrl(article.link, rresp).value
    IN  IF resolvedUrl # NoUrl /\ ~Includes(resolvedUrl, "news.google.com")
        THEN LET contentData == scrapeOriginalArticle(resolvedUrl, fs)
             IN  IF contentData.kind = "success"
                 THEN <<Entry(ExtractedTitle(contentData.data), article.link, resolvedUrl,
                              contentData.data.contentLen, "", resolvedUrl, "ok")>>
                 ELSE <<>>
        ELSE <<Entry(article.title, article.link, NoUrl, 0,
                     "Could not resolve to original article URL", resolvedUrl, "none")>>

\* The body of the first loop (scrape.js:432-481) for one article of the
\* search page: the entries it pushes.
SearchItemEntries(article, rresp, fs) ==
    LET resolvedUrl == resolveGoogleNewsUrl(article.link, rresp).value
    IN  IF resolvedUrl # NoUrl /\ ~Includes(resolvedUrl, "news.google.com")
        THEN LET contentData == scrapeOriginalArticle(resolvedUrl, fs)
             IN  IF contentData.kind = "success"
                 THEN <<Entry(ExtractedTitle(contentData.data), article.link, resolvedUrl,
                              contentData.data.contentLen, "", resolvedUrl, "ok")>>
                 ELSE <<Entry(article.title, article.link, NoUrl, 0,
                              "Processing failed", resolvedUrl, "failed")>>
        ELSE <<Entry(article.title, article.link, NoUrl, 0,
                     "Could not resolve to original article URL", resolvedUrl, "none")>>

\* The body of the RSS loop (scrape.js:509-559) for one item: the entries it
\* pushes (none for an item without title or link).
RssItemEntries(item, withContent, rresp, fs) ==
    IF item.title = "" \/ item.link = NoUrl THEN <<>>
    ELSE IF ~withContent
    THEN <<Entry(item.title, item.link, NoUrl, 0, "", NoUrl, "none")>>
    ELSE LET actualUrl == resolveGoogleNewsUrl(item.link, rresp).value
         IN  IF actualUrl # NoUrl /\ actualUrl # item.link
                /\ ~Includes(actualUrl, "news.google.com")
             THEN LET contentData == scrapeOriginalArticle(actualUrl, fs)
                  IN  IF contentData.kind = "success"
                      THEN <<Entry(item.title, item.link, actualUrl,
                                   contentData.data.contentLen, "", actualUrl, "ok")>>
                      ELSE <<Entry(item.title, item.link, actualUrl, 0,
                                   "Content fetch failed", actualUrl, "failed")>>
             ELSE <<Entry(item.title, item.link, NoUrl, 0,
                          "Could not resolve Google News URL to original source",
                          actualUrl, "none")>>

\* What the search page and the feed may list.
ArticleLink2 == <<"https://", AggHost, "/articles/", "5">>
SearchArticles == {[title |-> "A", link |-> ArticleLink], [title |-> "B", link |-> ArticleLink2]}
RssItems ==
    {[title |-> "A", link |-> RssLink], [title |-> "B", link |-> RssLinkWithUrl],
     [title |-> "", link |-> RssLink], [title |-> "A", link |-> NoUrl],
     [title |-> "B", link |-> ForeignUrl]}

Head5(q) == SubSeq(q, 1, IF Len(q) < FeedCap THEN Len(q) ELSE FeedCap)

\* getGoogleNewsRSS runs on its own or under one of the batch endpoints of
\* scrape.js, to whose handler it returns.
RssCallers == {"getGoogleNewsRSS", "apiScrapeRss", "apiNews"}
ReturnPc == IF op = "getGoogleNewsRSS" THEN "done" ELSE "handler"

\* getActualArticleUrls (scrape.js:375-418) then the choice of the loop: the
\* search page's articles when content is wanted and there are some, else
\* the feed.
rssBegin ==
    /\ op \in RssCallers /\ pc = "start"
    /\ IF includeContent
       THEN \E found \in SeqsUpTo(SearchArticles, MaxItems) :
            /\ gets' = gets + 1
            /\ IF Len(found) > 0
               THEN /\ cands' = Head5(found)
                    /\ discovery' = "search"
                    /\ pc' = "searchLoop"
               ELSE /\ pc' = "rss"
                    /\ UNCHANGED <<cands, discovery>>
       ELSE /\ pc' = "rss"
            /\ UNCHANGED <<gets, cands, discovery>>
    /\ UNCHANGED <<doc, extracted, limit, calls, op, url, attempt, outcomes, lastError, result, includeContent, idx, articles>>

rssSearchItem ==
    /\ op \in RssCallers /\ pc = "searchLoop" /\ idx <= Len(cands)
    /\ \E rresp \in ItemResolverResponses, fs \in ItemFetchRuns :
          articles' = articles \o SearchItemEntries(cands[idx], rresp, fs)
    /\ idx' = idx + 1
    /\ UNCHANGED <<doc, extracted, limit, calls, op, url, pc, attempt, gets, outcomes, lastError, result,
                   includeContent, discovery, cands>>

rssSearchReturn ==
    /\ op \in RssCallers /\ pc = "searchLoop" /\ idx > Len(cands)
    /\ IF Len(articles) > 0
       THEN /\ result' = [kind |-> "articles", data |-> NoPage, err |-> NoError]
            /\ pc' = ReturnPc
       ELSE /\ pc' = "rss"
            /\ UNCHANGED result
    /\ UNCHANGED <<doc, extracted, limit, calls, op, url, attempt, gets, outcomes, lastError,
                   includeContent, discovery, cands, idx, articles>>

\* The GET of the feed (scrape.js:492-506); its failure is rethrown.
rssFetchFeed ==
    /\ op \in RssCallers /\ pc = "rss"
    /\ gets' = gets + 1
    /\ \/ /\ result' = [kind |-> "error", data |-> NoPage,
                        err |-> [prefix |-> "Failed to fetch Google News",
                                 msg |-> "timeout of 10000ms exceeded",
                                 status |-> NoStatus, code |-> ""]]
          /\ discovery' = "failed"
          /\ pc' = ReturnPc
          /\ UNCHANGED <<cands, idx, articles>>
       \/ \E items \in SeqsUpTo(RssItems, MaxItems) :
          /\ cands' = Head5(items)
          /\ discovery' = "rss"
          /\ idx' = 1
          /\ articles' = <<>>
          /\ pc' = "rssLoop"
          /\ UNCHANGED result
    /\ UNCHANGED <<doc, extracted, limit, calls, op, url, attempt, outcomes, lastError, includeContent>>

rssFeedItem ==
    /\ op \in RssCallers /\ pc = "rssLoop" /\ idx <= Len(cands)
    /\ \E rresp \in ItemResolverResponses, fs \in ItemFetchRuns :
          articles' = articles \o RssItemEntries(cands[idx], includeContent, rresp, fs)
    /\ idx' = idx + 1
    /\ UNCHANGED <<doc, extracted, limit, calls, op, url, pc, attempt, gets, outcomes, lastError, result,
                   includeContent, discovery, cands>>

rssFeedReturn ==
    /\ op \in RssCallers /\ pc = "rssLoop" /\ idx > Len(cands)
    /\ result' = [kind |-> "articles", data |-> NoPage, err |-> NoError]
    /\ pc' = ReturnPc
    /\ UNCHANGED <<doc, extracted, limit, calls, op, url, attempt, gets, outcomes, lastError,
                   includeContent, discovery, cands, idx, articles>>

(***************************************************************************)
(* Batch mode of the news API: app.get('/api/news')                        *)
(* (src/unnamed/part_000:240-292) over getGoogleNewsRSS (part_000:204-237).*)
(***************************************************************************)
FeedCap_p0 == 10

\* The feed items that have a title and a link, as entries.
RECURSIVE FeedEntries_p0(_)
FeedEntries_p0(items) ==
    IF items = <<>> THEN <<>>
    ELSE LET it == Head(items)
         IN  (IF it.title # "" /\ it.link # NoUrl
              THEN <<Entry(it.title, it.link, NoUrl, 0, "", NoUrl, "none")>>
              ELSE <<>>) \o FeedEntries_p0(Tail(items))

Head10(q) == SubSeq(q, 1, IF Len(q) < FeedCap_p0 THEN Len(q) ELSE FeedCap_p0)

\* scrapeArticle of part_000 as one call, given the answer f to its GET: the
\* content it returns (`content.trim() || 'No content available'`), 0 for the
\* undefined content of the {error, url} object.
ScrapedContent_p0(u, f) ==
    IF ~ParsesAsUrl(u) \/ ~ArticleBody_p0(f).ok THEN 0
    ELSE IF f.page.contentLen > 0 THEN f.page.contentLen ELSE 20

\* The body of the loop over the articles (part_000:254-276) for one article.
NewsItem_p0(article, rresp, f) ==
    LET r == resolveGoogleNewsUrl_p0(article.original_link, rresp)
        failed == [article EXCEPT !.error = "Content fetch failed",
                                  !.resolverOut = r.value]
    IN  IF r.kind = "threw" THEN failed
        ELSE IF Includes(r.value, "news.google.com") /\ ~ParsesAsUrl(r.value) THEN failed
        ELSE LET resolvedUrl ==
                     IF Includes(r.value, "news.google.com")
                           /\ SearchParamsGet(r.value, "url") # <<>>
                     THEN SearchParamsGet(r.value, "url")
                     ELSE r.value
             IN  [article EXCEPT !.content = ScrapedContent_p0(resolvedUrl, f),
                                 !.resolved_url = resolvedUrl,
                                 !.resolverOut = r.value,
                                 !.extract = IF ScrapedContent_p0(resolvedUrl, f) > 0
                                             THEN "ok" ELSE "failed"]

newsBegin_p0 ==
    /\ op = "news_p0" /\ pc = "start"
    /\ gets' = gets + 1
    /\ \/ /\ result' = [kind |-> "error", data |-> NoPage,
                        err |-> [prefix |-> "RSS fetch failed",
                                 msg |-> "timeout of 10000ms exceeded",
                                 status |-> NoStatus, code |-> ""]]
          /\ discovery' = "failed"
          /\ pc' = "done"
          /\ UNCHANGED <<cands, articles>>
       \/ \E items \in SeqsUpTo(RssItems, MaxItems) :
          /\ cands' = items
          /\ articles' = Head10(FeedEntries_p0(items))
          /\ discovery' = "rss"
          /\ pc' = IF includeContent THEN "newsLoop" ELSE "respond"
          /\ UNCHANGED result
    /\ UNCHANGED <<doc, extracted, limit, calls, op, url, attempt, outcomes, lastError, includeContent, idx>>

newsItem_p0 ==
    /\ op = "news_p0" /\ pc = "newsLoop" /\ idx <= Len(articles)
    /\ \E rresp \in ItemResolverResponses, f \in ItemFetchResponses :
          articles' = [articles EXCEPT ![idx] = NewsItem_p0(articles[idx], rresp, f)]
    /\ idx' = idx + 1
    /\ UNCHANGED <<doc, extracted, limit, calls, op, url, pc, attempt, gets, outcomes, lastError, result,
                   includeContent, discovery, cands>>

newsRespond_p0 ==
    /\ op = "news_p0"
    /\ pc = "respond" \/ (pc = "newsLoop" /\ idx > Len(articles))
    /\ result' = [kind |-> "articles", data |-> NoPage, err |-> NoError]
    /\ pc' = "done"
    /\ UNCHANGED <<doc, extracted, limit, calls, op, url, attempt, gets, outcomes, lastError,
                   includeContent, discovery, cands, idx, articles>>

BatchInit ==
    /\ op \in {"getGoogleNewsRSS", "news_p0"}
    /\ url = NoUrl
    /\ pc = "start"
    /\ attempt = 1
    /\ gets = 0
    /\ outcomes = <<>>
    /\ lastError = NoError
    /\ result = NoResult
    /\ includeContent \in BOOLEAN
    /\ discovery = "none"
    /\ cands = <<>>
    /\ idx = 1
    /\ articles = <<>>
    /\ calls = <<>>
    /\ limit = 0
    /\ doc = NoDocument
    /\ extracted = NotExtracted

BatchNext ==
    \/ rssBegin
    \/ rssSearchItem
    \/ rssSearchReturn
    \/ rssFetchFeed
    \/ rssFeedItem
    \/ rssFeedReturn
    \/ newsBegin_p0
    \/ newsItem_p0
    \/ newsRespond_p0

BatchSpec == BatchInit /\ [][BatchNext]_vars

\* The host of an absolute URL differs from the aggregator's.
ForeignAbsolute(u) == ParsesAsUrl(u) /\ u[2] # AggHost

\* C8: with content fetching, an item of getGoogleNewsRSS is reported as
\* resolved (resolved_url set, extraction attempted) exactly when the
\* resolver's output is an absolute URL on another host than the aggregator's.
C8_ResolvedIffForeignHost ==
    (op = "getGoogleNewsRSS" /\ includeContent)
    => \A k \in 1..Len(articles) :
          (articles[k].resolved_url # NoUrl /\ articles[k].extract # "none")
          <=> ForeignAbsolute(articles[k].resolverOut)

\* The links of the candidates: a candidate has a title and a link
\* (scrape.js:516, part_000:222), other items of the feed are none.
RECURSIVE ValidLinks(_)
ValidLinks(q) ==
    IF q = <<>> THEN <<>>
    ELSE (IF Head(q).title # "" /\ Head(q).link # NoUrl THEN <<Head(q).link>> ELSE <<>>)
         \o ValidLinks(Tail(q))

EntryLinks == [k \in 1..Len(articles) |-> articles[k].original_link]

\* An entry's fields say what happened to its own item: an error exactly
\* when its resolution or its extraction failed; in the news API a failed
\* extraction shows as the entry's missing content.
OwnOutcome(e) ==
    IF op = "getGoogleNewsRSS"
    THEN /\ e.error = "" <=> (~includeContent \/ e.extract = "ok")
         /\ e.error \in {"Processing failed", "Content fetch failed"} <=> e.extract = "failed"
         /\ e.content > 0 => e.extract = "ok"
    ELSE /\ e.error # "" <=> (e.resolverOut # NoUrl /\ e.extract = "none")
         /\ e.content > 0 <=> e.extract = "ok"

\* A step leaves the entries of the other items as they are.
SiblingsUntouched ==
    \A k \in 1..Len(articles) :
        (pc = "newsLoop" => k # idx)
        => (k <= Len(articles') /\ articles'[k] = articles[k])

BatchListInv ==
    /\ pc \in {"searchLoop", "rssLoop"}
          => EntryLinks = ValidLinks(SubSeq(cands, 1, idx - 1))
    /\ (pc \in {"newsLoop", "respond"} \/ (pc = "done" /\ result.kind = "articles"))
          => EntryLinks = ValidLinks(cands)
    /\ \A k \in 1..Len(articles) : OwnOutcome(articles[k])
    /\ pc = "done" => (result.kind = "error" <=> discovery = "failed")
    /\ pc = "done" => result.kind \in {"error", "articles"}

Candidates == SelectSeq(cands, LAMBDA c : c.title # "" /\ c.link # NoUrl)

\* C13: the candidate list of the feed/search reader never holds two items
\* with the same title, nor two with the same link.
C13_NoDuplicateCandidates ==
    \A i, j \in 1..Len(Candidates) :
        i # j => /\ Candidates[i].title # Candidates[j].title
                 /\ Candidates[i].link # Candidates[j].link

\* C12: every item of a batch result that was resolved and extracted has a
\* title that is neither null nor the empty string.
C12_ExtractedItemHasTitle ==
    \A k \in 1..Len(articles) :
        (articles[k].resolved_url # NoUrl /\ articles[k].extract = "ok")
        => articles[k].title # ""

(***************************************************************************)
(* Single-URL mode: app.get('/api/scrape') (src/api/scrape.js:892-1007)    *)
(* over scrapeGoogleNews (scrape.js:768-829), and app.get('/api/article')  *)
(* (src/unnamed/part_000:295-331).                                         *)
(***************************************************************************)
\* isValidUrl without the test of the protocol.
isValidUrl_AnyProtocol(s) == ParsesAsUrl(s)

isValidUrl(s) == ParsesAsUrl(s) /\ s[1] \in {"http://", "https://"}

\* The HTTP reply: res.status(status).json({success, error, ...}); data is
\* the extraction the reply describes, NoPage when it describes none.
Reply(status, success, msg, data) ==
    [kind |-> IF success THEN "success" ELSE "error", data |-> data,
     err |-> [prefix |-> "", msg |-> msg, status |-> status, code |-> ""]]

\* The handler hands the request to batch mode.
ToBatch == [kind |-> "batch", data |-> NoPage, err |-> NoError]

ResolverCall(arg, out) == [fn |-> "resolveGoogleNewsUrl", arg |-> arg, out |-> out]
ExtractorCall(arg) == [fn |-> "scrapeArticle", arg |-> arg, out |-> NoUrl]

\* The url parameter of a request; NoUrl when it is absent.
SingleUrls ==
    {NoUrl, <<"rss">>, RelativeUrl, <<"ftp://", "example.com", "/a">>,
     ForeignUrl, ForeignNoKeyword, <<"https://", "example.com", "/rss-feed">>,
     ArticleLink, RssLink, RssLinkWithUrl,
     <<"https://", AggHost, "/redirect", "?url=">> \o EncodedTarget}

\* app.get('/api/scrape') up to its call of scrapeGoogleNews (scrape.js:892-975).
apiScrape ==
    /\ op = "apiScrape" /\ pc = "start"
    /\ IF url = <<"rss">>
       THEN result' = ToBatch /\ pc' = "done"
       ELSE IF url = NoUrl
       THEN /\ result' = Reply(400, FALSE, "URL parameter is required for direct article scraping.", NoPage)
            /\ pc' = "done"
       ELSE IF ~isValidUrl(url)
       THEN /\ result' = Reply(400, FALSE, "Invalid URL format. Please provide a valid HTTP/HTTPS URL.", NoPage)
            /\ pc' = "done"
       ELSE /\ pc' = "scrapeGoogleNews"
            /\ UNCHANGED result
    /\ UNCHANGED <<op, url, fetchVars, batchVars>>

\* error.message.includes('timeout')
MessageHasTimeout(e) == e.msg = "timeout of 15000ms exceeded"

\* The catch block of app.get('/api/scrape') (scrape.js:980-1006): the
\* reply's status and message for the error caught.
ErrorReply(error) ==
    IF error.status = 403
    THEN Reply(403, FALSE, "Access denied. The article source may be blocking requests.", NoPage)
    ELSE IF error.status = 404
    THEN Reply(404, FALSE, "Article not found.", NoPage)
    ELSE IF error.code = "ENOTFOUND"
    THEN Reply(400, FALSE, "Unable to connect to the source website.", NoPage)
    ELSE IF MessageHasTimeout(error)
    THEN Reply(408, FALSE, "Request timeout. The operation took too long.", NoPage)
    ELSE Reply(500, FALSE, error.msg, NoPage)

\* The error scrapeGoogleNews throws (scrape.js:826-828): a new Error around
\* the message of the one it caught.
GoogleNewsError(e) ==
    [prefix |-> "Google News scraping failed", msg |-> e.msg, status |-> NoStatus, code |-> ""]

\* scrapeGoogleNews (scrape.js:768-829) and the handler's catch block
\* (scrape.js:980-1006). extractRealArticleUrl (scrape.js:787) is defined
\* nowhere: the call throws a ReferenceError, which line 826 rethrows and the
\* handler answers with 500; lines 789-822 are never reached.
scrapeGoogleNews ==
    /\ op = "apiScrape" /\ pc = "scrapeGoogleNews"
    /\ IF Includes(url, "rss")
       THEN result' = ToBatch
       ELSE result' = ErrorReply(GoogleNewsError(
                          Err("extractRealArticleUrl is not defined", NoStatus, "")))
    /\ pc' = "done"
    /\ UNCHANGED <<op, url, fetchVars, batchVars>>

\* `urlParams.get('url') || targetUrl` (part_000:312-315).
TargetParam_p0(targetUrl) ==
    IF SearchParamsGet(targetUrl, "url") # <<>> THEN SearchParamsGet(targetUrl, "url")
    ELSE targetUrl

\* app.get('/api/article') up to its call of scrapeArticle (part_000:295-317).
apiArticle_p0 ==
    /\ op = "apiArticle_p0" /\ pc = "start"
    /\ IF url = NoUrl \/ ~isValidUrl(url)
       THEN /\ result' = Reply(400, FALSE, "Valid URL parameter is required", NoPage)
            /\ pc' = "done"
            /\ UNCHANGED <<gets, calls>>
       ELSE IF ~Includes(url, "news.google.com")
       THEN /\ pc' = "scrape"
            /\ UNCHANGED <<result, gets, calls>>
       ELSE \E rresp \in ResolverResponses :
            LET r == resolveGoogleNewsUrl_p0(url, rresp)
            IN  /\ gets' = gets + 1
                /\ IF r.kind = "threw"
                      \/ (Includes(r.value, "news.google.com") /\ ~ParsesAsUrl(r.value))
                   THEN /\ calls' = <<ResolverCall(url, NoUrl)>>
                        /\ result' = Reply(500, FALSE, "Invalid URL", NoPage)
                        /\ pc' = "done"
                   ELSE /\ calls' = <<ResolverCall(url,
                                        IF Includes(r.value, "news.google.com")
                                        THEN TargetParam_p0(r.value) ELSE r.value)>>
                        /\ pc' = "scrape"
                        /\ UNCHANGED result
    /\ UNCHANGED <<doc, extracted, limit, op, url, attempt, outcomes, lastError,
                   includeContent, discovery, cands, idx, articles>>

\* The rest of app.get('/api/article') (part_000:319-325): scrapeArticle on
\* targetUrl, then the reply, success: true around whatever it returned.
apiArticleScrape_p0 ==
    /\ op = "apiArticle_p0" /\ pc = "scrape"
    /\ LET targetUrl == IF calls = <<>> THEN url ELSE calls[1].out
       IN  /\ calls' = Append(calls, ExtractorCall(targetUrl))
           /\ IF ~ParsesAsUrl(targetUrl)
              THEN /\ result' = Reply(200, TRUE, "Scraping failed: Invalid URL", NoPage)
                   /\ UNCHANGED <<gets, outcomes>>
              ELSE \E f \in Responses :
                   /\ gets' = gets + 1
                   /\ outcomes' = Append(outcomes, f)
                   /\ result' = IF ArticleBody_p0(f).ok
                                THEN Reply(200, TRUE, "", ArticleBody_p0(f).data)
                                ELSE Reply(200, TRUE,
                                           ArticleReturnedError_p0(ArticleBody_p0(f).err).msg,
                                           NoPage)
    /\ pc' = "done"
    /\ UNCHANGED <<doc, extracted, limit, op, url, attempt, lastError,
                   includeContent, discovery, cands, idx, articles>>

\* The catch block of app.get('/api/scrape') of part_001 with the first
\* page received put into the reply.
ErrorReply_p1_WithPage(error) ==
    Reply(500, FALSE, error.msg,
          IF outcomes = <<>> THEN NoPage ELSE outcomes[1].page)

\* The catch block of app.get('/api/scrape') of part_001 (part_001:835-861).
ErrorReply_p1(error) ==
    IF error.status = 403
    THEN Reply(403, FALSE, "Access denied by website. The site may be blocking automated requests.", NoPage)
    ELSE IF error.status = 404
    THEN Reply(404, FALSE, "Article not found. Please check the URL.", NoPage)
    ELSE IF error.code \in {"ENOTFOUND", "ECONNREFUSED"}
    THEN Reply(400, FALSE, "Unable to connect to the website. Please check the URL.", NoPage)
    ELSE IF MessageHasTimeout(error)
    THEN Reply(408, FALSE, "Request timeout. The website took too long to respond.", NoPage)
    ELSE Reply(500, FALSE, error.msg, NoPage)

\* app.get('/api/scrape') of part_001 up to its call of scrapeArticle
\* (part_001:772-795).
apiScrape_p1 ==
    /\ op = "apiScrape_p1" /\ pc = "start"
    /\ IF url = NoUrl
       THEN /\ result' = Reply(400, FALSE, "URL parameter is required", NoPage)
            /\ pc' = "done"
       ELSE IF ~isValidUrl(url)
       THEN /\ result' = Reply(400, FALSE, "Invalid URL format", NoPage)
            /\ pc' = "done"
       ELSE /\ pc' = "loop"
            /\ UNCHANGED result
    /\ UNCHANGED <<op, url, fetchVars, batchVars>>

\* tryAlternativeScraping (part_001:751-769) returned the page: the GET was
\* answered 2xx with more than 100 characters.
AlternativeData(alt) ==
    alt.kind = "http" /\ DefaultValidateStatus(alt.status) /\ alt.page.dataLen > 100

\* The rest of the handler once scrapeArticle has returned or thrown
\* (part_001:796-861): the reply with the result, or the alternative GET and
\* the reply with what it gave, or with the primary error.
apiScrapeReply_p1 ==
    /\ op = "apiScrape_p1" /\ pc = "handler"
    /\ IF result.kind = "success"
       THEN /\ result' = Reply(200, TRUE, "", result.data)
            /\ UNCHANGED <<gets, outcomes>>
       ELSE \E alt \in Responses :
            /\ gets' = gets + 1
            /\ outcomes' = Append(outcomes, alt)
            /\ result' = IF AlternativeData(alt)
                              /\ (alt.page.titleLen > 0 \/ alt.page.contentLen > 0)
                         THEN Reply(200, TRUE, "", alt.page)
                         ELSE ErrorReply_p1(result.err)
    /\ pc' = "done"
    /\ UNCHANGED <<op, url, attempt, lastError>>
    /\ UNCHANGED batchVars

\* app.get('/api/article') of the article scraper (scrape.js:162-184) over
\* its scrapeArticle (scrape.js:36-159), which part_000:79-201 repeats.
apiArticle ==
    /\ op = "apiArticle" /\ pc = "start"
    /\ IF url = NoUrl \/ ~isValidUrl(url)
       THEN /\ result' = Reply(400, FALSE, "Valid URL parameter is required", NoPage)
            /\ UNCHANGED <<gets, outcomes>>
       ELSE \E f \in Responses :
            /\ gets' = gets + 1
            /\ outcomes' = Append(outcomes, f)
            /\ result' = IF ArticleBody_p0(f).ok
                         THEN Reply(200, TRUE, "", ArticleBody_p0(f).data)
                         ELSE Reply(200, TRUE,
                                    ArticleReturnedError_p0(ArticleBody_p0(f).err).msg,
                                    NoPage)
    /\ pc' = "done"
    /\ UNCHANGED <<op, url, attempt, lastError>>
    /\ UNCHANGED batchVars

SingleInit ==
    /\ op \in {"apiScrape", "apiArticle_p0", "apiScrape_p1", "apiArticle"}
    /\ url \in SingleUrls
    /\ pc = "start"
    /\ attempt = 1
    /\ gets = 0
    /\ outcomes = <<>>
    /\ lastError = NoError
    /\ result = NoResult
    /\ BatchIdle

SingleNext ==
    \/ apiScrape
    \/ scrapeGoogleNews
    \/ apiArticle_p0
    \/ apiArticleScrape_p0
    \/ apiScrape_p1
    \/ scrapeArticleAttempt
    \/ scrapeArticleThrow
    \/ apiScrapeReply_p1
    \/ apiArticle

SingleSpec == SingleInit /\ [][SingleNext]_vars

ExtractorCalls == SelectSeq(calls, LAMBDA c : c.fn = "scrapeArticle")
ResolverCalls == SelectSeq(calls, LAMBDA c : c.fn = "resolveGoogleNewsUrl")

\* C9: in single-URL mode a valid http(s) URL that the aggregator does not
\* host goes unchanged to the extractor, without the resolver, and the reply
\* describes the extraction of that URL; a URL the aggregator hosts goes to
\* the resolver first and is extracted only when the resolution succeeded,
\* that is, gave an absolute URL on another host.
C9_SingleUrlRouting ==
    (pc = "done" /\ op \in {"apiScrape", "apiArticle_p0"} /\ isValidUrl(url))
    => IF ~AggregatorHosted(url)
       THEN /\ ResolverCalls = <<>>
            /\ ExtractorCalls = <<ExtractorCall(url)>>
            /\ result.kind = "success"
       ELSE /\ Len(ResolverCalls) = 1 /\ calls[1] = ResolverCalls[1]
            /\ ExtractorCalls # <<>>
                  => (ForeignAbsolute(calls[1].out) /\ ExtractorCalls = <<ExtractorCall(calls[1].out)>>)

(***************************************************************************)
(* The batch endpoints of scrape.js: app.get('/api/scrape') with type=rss  *)
(* (src/api/scrape.js:904-953) and app.get('/api/news')                    *)
(* (src/api/scrape.js:1010-1040), both over getGoogleNewsRSS.              *)
(***************************************************************************)
MaxLimit == 3

\* articles.slice(0, n)
SliceTo(q, n) == SubSeq(q, 1, IF Len(q) < n THEN Len(q) ELSE n)

\* What getDirectNewsArticles (scrape.js:832-889) returns: the items of the
\* one feed it reads that have a title holding the query and a link, out of
\* the feed's first `limit`; none when its GET fails.
DirectLink == <<"https://", "example.org", "/a">>
DirectArticles(n) ==
    SeqsUpTo({[title |-> "A", link |-> ForeignUrl], [title |-> "B", link |-> DirectLink]}, n)

\* The handler's loop over the direct articles (scrape.js:925-936) for one
\* of them: Object.assign(article, contentData), or the error.
DirectEntry(article, withContent, fs) ==
    IF ~withContent
    THEN Entry(article.title, article.link, article.link, 0, "", article.link, "none")
    ELSE LET contentData == scrapeOriginalArticle(article.link, fs)
         IN  IF contentData.kind = "success"
             THEN Entry(ExtractedTitle(contentData.data), article.link, article.link,
                        contentData.data.contentLen, "", article.link, "ok")
             ELSE Entry(article.title, article.link, article.link, 0,
                        "Content fetch failed", article.link, "failed")

\* The result of scrapeGoogleNews('rss') (scrape.js:774-783) as the handler
\* sends it: total is articles.length as scrapeGoogleNews counted it.
BatchReply(total) ==
    [kind |-> "success", data |-> NoPage, err |-> Err("", 200, ""), total |-> total]

\* The rest of app.get('/api/scrape') with type=rss once scrapeGoogleNews
\* ('rss') has returned or thrown (scrape.js:912-953).
apiScrapeRss ==
    /\ op = "apiScrapeRss" /\ pc = "handler"
    /\ IF result.kind = "error"
       THEN /\ result' = Reply(500, FALSE, "Failed to fetch news: Google News scraping failed", NoPage)
            /\ UNCHANGED articles
       ELSE \E useFallback \in BOOLEAN :
            /\ result' = BatchReply(Len(articles))
            /\ IF useFallback /\ Len(articles) = 0
               THEN \E direct \in DirectArticles(limit) :
                    \E fss \in [1..Len(direct) -> ItemFetchRuns] :
                       articles' = [k \in 1..Len(direct) |->
                                       DirectEntry(direct[k], includeContent, fss[k])]
               ELSE UNCHANGED articles
    /\ pc' = "done"
    /\ UNCHANGED <<doc, extracted, op, url, fetchVars, includeContent, discovery, cands, idx, calls, limit>>

\* The rest of app.get('/api/news') once getGoogleNewsRSS has returned or
\* thrown (scrape.js:1021-1039).
apiNews ==
    /\ op = "apiNews" /\ pc = "handler"
    /\ IF result.kind = "error"
       THEN /\ result' = Reply(500, FALSE, "Failed to fetch Google News", NoPage)
            /\ UNCHANGED articles
       ELSE /\ result' = Reply(200, TRUE, "", NoPage)
            /\ articles' = SliceTo(articles, limit)
    /\ pc' = "done"
    /\ UNCHANGED <<doc, extracted, op, url, fetchVars, includeContent, discovery, cands, idx, calls, limit>>

EndpointInit ==
    /\ op \in {"apiScrapeRss", "apiNews"}
    /\ url = NoUrl
    /\ pc = "start"
    /\ attempt = 1
    /\ gets = 0
    /\ outcomes = <<>>
    /\ lastError = NoError
    /\ result = NoResult
    /\ includeContent \in BOOLEAN
    /\ discovery = "none"
    /\ cands = <<>>
    /\ idx = 1
    /\ articles = <<>>
    /\ calls = <<>>
    /\ limit \in 1..MaxLimit
    /\ doc = NoDocument
    /\ extracted = NotExtracted

EndpointNext ==
    \/ rssBegin
    \/ rssSearchItem
    \/ rssSearchReturn
    \/ rssFetchFeed
    \/ rssFeedItem
    \/ rssFeedReturn
    \/ apiScrapeRss
    \/ apiNews

EndpointSpec == EndpointInit /\ [][EndpointNext]_vars

\* C11: a batch request with limit = n is answered with at most n items.
C11_AtMostLimitItems ==
    (pc = "done" /\ op \in {"apiScrapeRss", "apiNews"} /\ result.kind = "success")
    => Len(articles) <= limit

(***************************************************************************)
(* Extraction: what each extractor makes of a fetched page.                *)
(*   scrapeOriginalArticle   src/api/scrape.js:591-752                     *)
(*   scrapeOriginalArticle   src/unnamed/part_001:128-213  (suffix _p1)    *)
(*   scrapeArticle           src/unnamed/part_001:659-734                  *)
(*   scrapeArticle           src/unnamed/part_000:86-193   (suffix _p0)    *)
(* A document is the length of its title text, its paragraphs (the length  *)
(* of each one's trimmed text, and whether it lies inside an element that  *)
(* the content selectors match) and its img elements.                      *)
(***************************************************************************)
MaxParas == 3
ParaLens == {10, 25, 40, 60, 120}
TitleLens == {0, 5, 20}
Paragraphs == [len : ParaLens, inside : BOOLEAN]

\* An img element: the URL its src resolves to, whether the src is longer
\* than 20 characters, whether it holds 'logo' or 'icon', and whether one of
\* the selectors before the plain 'img' matches it too.
Img(n, long, logo, early) == [full |-> n, long |-> long, logo |-> logo, early |-> early]
Plain(n) == Img(n, TRUE, FALSE, FALSE)
ImgLists ==
    {<<>>, <<Plain(1)>>, <<Plain(1), Plain(1)>>, <<Plain(1), Plain(2), Plain(1)>>,
     <<Img(1, TRUE, FALSE, TRUE), Plain(2)>>,
     <<Img(1, TRUE, TRUE, FALSE), Img(2, FALSE, FALSE, FALSE)>>,
     [k \in 1..6 |-> Plain(k)],
     [k \in 1..11 |-> Plain(k)]}

Documents == [titleLen : TitleLens, paras : SeqsUpTo(Paragraphs, MaxParas), imgs : ImgLists]

\* content += text + '\n\n' over the paragraphs of q longer than min.
RECURSIVE Accumulate(_, _)
Accumulate(q, min) ==
    IF q = <<>> THEN 0
    ELSE (IF Head(q).len > min THEN Head(q).len + 2 ELSE 0) + Accumulate(Tail(q), min)

Inside(q) == SelectSeq(q, LAMBDA x : x.inside)

\* content.trim(): the trailing '\n\n' goes.
Trimmed(n) == IF n > 0 THEN n - 2 ELSE 0

\* The img elements in the order the selectors visit them: a list of
\* selectors visits those the earlier ones match, then all of them.
VisitBySelectors(imgs) == SelectSeq(imgs, LAMBDA x : x.early) \o imgs

Contains(q, x) == \E k \in 1..Len(q) : q[k] = x

\* The loop over the visited img elements: a logo, icon or avatar is never
\* kept, testLength tells whether a src of 20 characters or fewer is dropped
\* too, dedupe whether a URL already collected is skipped, cap how many
\* are collected at most (0: no cap).
RECURSIVE CollectImages(_, _, _, _, _)
CollectImages(visit, images, testLength, dedupe, cap) ==
    IF visit = <<>> THEN images
    ELSE LET x == Head(visit)
             push == /\ ~x.logo /\ (testLength => x.long)
                     /\ (dedupe => ~Contains(images, x.full))
                     /\ (cap > 0 => Len(images) < cap)
         IN  CollectImages(Tail(visit), IF push THEN Append(images, x.full) ELSE images,
                           testLength, dedupe, cap)

Extracted(title, content, images) ==
    [kind |-> "success", title |-> title, content |-> content, images |-> images]
Insufficient == [kind |-> "insufficient", title |-> 0, content |-> 0, images |-> <<>>]

\* scrapeOriginalArticle of scrape.js: content (636-669), images (671-705),
\* validation and result (740-752).
ContentOriginal(d) ==
    LET fromContainer == Accumulate(Inside(d.paras), 30)
    IN  IF fromContainer > 200 THEN fromContainer
        ELSE fromContainer + Accumulate(d.paras, 50)
ImagesOriginal(d) ==
    CollectImages(VisitBySelectors(d.imgs), <<>>, TRUE, TRUE, 10)
ExtractOriginal(d) ==
    IF d.titleLen = 0 /\ ContentOriginal(d) < 100 THEN Insufficient
    ELSE Extracted(d.titleLen, Trimmed(ContentOriginal(d)), ImagesOriginal(d))

\* scrapeOriginalArticle of part_001: content (152-164), images (166-180,
\* 210), result (207-213); it has no validation.
ContentOriginal_p1(d) == Accumulate(Inside(d.paras), 20)
ImagesOriginal_p1(d) ==
    SliceTo(CollectImages(d.imgs, <<>>, TRUE, TRUE, 0), 5)
ExtractOriginal_p1(d) ==
    Extracted(d.titleLen, Trimmed(ContentOriginal_p1(d)), ImagesOriginal_p1(d))

\* extractCleanText (part_001:400-416) on the content selectors: the whole
\* text of the matched elements, joined by one space.
RECURSIVE JoinedText(_)
JoinedText(q) ==
    IF q = <<>> THEN 0
    ELSE Head(q).len + (IF Tail(q) = <<>> THEN 0 ELSE 1 + JoinedText(Tail(q)))
extractImages(d) ==
    CollectImages(VisitBySelectors(d.imgs), <<>>, FALSE, TRUE, 0)
\* scrapeArticle of part_001: content (697-708), validation (710-713),
\* images (716), result (721-734).
ExtractArticle(d) ==
    LET content == JoinedText(Inside(d.paras))
    IN  IF d.titleLen = 0 /\ content = 0 THEN Insufficient
        ELSE Extracted(d.titleLen, content, extractImages(d))

\* scrapeArticle of part_000: content (124-146), images (148-162), result
\* with its placeholders 'No title found' and 'No content available'
\* (185-193).
ContentArticle_p0(d) ==
    IF Accumulate(Inside(d.paras), 30) > 0 THEN Accumulate(Inside(d.paras), 30)
    ELSE Accumulate(d.paras, 50)
ImagesArticle_p0(d) ==
    CollectImages(d.imgs, <<>>, TRUE, FALSE, 5)
ExtractArticle_p0(d) ==
    Extracted(IF d.titleLen > 0 THEN d.titleLen ELSE 14,
              IF ContentArticle_p0(d) > 0 THEN Trimmed(ContentArticle_p0(d)) ELSE 20,
              ImagesArticle_p0(d))

Extractors == {"scrapeOriginalArticle", "scrapeOriginalArticle_p1", "scrapeArticle", "scrapeArticle_p0"}

extractOriginal ==
    /\ op = "scrapeOriginalArticle" /\ pc = "fetched"
    /\ extracted' = ExtractOriginal(doc)
    /\ pc' = "done"
    /\ UNCHANGED <<op, url, fetchVars, result, includeContent, discovery, cands, idx,
                   articles, calls, limit, doc>>

extractOriginal_p1 ==
    /\ op = "scrapeOriginalArticle_p1" /\ pc = "fetched"
    /\ extracted' = ExtractOriginal_p1(doc)
    /\ pc' = "done"
    /\ UNCHANGED <<op, url, fetchVars, result, includeContent, discovery, cands, idx,
                   articles, calls, limit, doc>>

extractArticle ==
    /\ op = "scrapeArticle" /\ pc = "fetched"
    /\ extracted' = ExtractArticle(doc)
    /\ pc' = "done"
    /\ UNCHANGED <<op, url, fetchVars, result, includeContent, discovery, cands, idx,
                   articles, calls, limit, doc>>

extractArticle_p0 ==
    /\ op = "scrapeArticle_p0" /\ pc = "fetched"
    /\ extracted' = ExtractArticle_p0(doc)
    /\ pc' = "done"
    /\ UNCHANGED <<op, url, fetchVars, result, includeContent, discovery, cands, idx,
                   articles, calls, limit, doc>>

ExtractInit ==
    /\ op \in Extractors
    /\ url = ForeignUrl
    /\ pc = "fetched"
    /\ attempt = 1
    /\ gets = 1
    /\ outcomes = <<>>
    /\ lastError = NoError
    /\ result = NoResult
    /\ includeContent = FALSE
    /\ discovery = "none"
    /\ cands = <<>>
    /\ idx = 1
    /\ articles = <<>>
    /\ calls = <<>>
    /\ limit = 0
    /\ doc \in Documents
    /\ extracted = NotExtracted

ExtractNext ==
    \/ extractOriginal
    \/ extractOriginal_p1
    \/ extractArticle
    \/ extractArticle_p0

ExtractSpec == ExtractInit /\ [][ExtractNext]_vars
\* The largest cap an extractor puts on its images list (scrape.js:697).
ImageCap == 10

NoDuplicates(q) == \A i, j \in 1..Len(q) : i # j => q[i] # q[j]

\* C14: after every successful extraction, by any extractor, the images list
\* holds no URL twice and is no longer than the cap.
C14_ImagesUniqueAndCapped ==
    (pc = "done" /\ op \in Extractors /\ extracted.kind = "success")
    => /\ NoDuplicates(extracted.images)
       /\ Len(extracted.images) <= ImageCap

\* The length below which scrapeOriginalArticle counts the body as missing
\* (scrape.js:741).
MinBody == 100

\* C15: a body text that an extraction result carries (content not null) is
\* longer than the minimum body threshold; text below the threshold is never
\* returned.
C15_BodyAboveThreshold ==
    (pc = "done" /\ op \in {"scrapeOriginalArticle", "scrapeOriginalArticle_p1"}
                 /\ extracted.kind = "success" /\ extracted.content > 0)
    => extracted.content > MinBody

\* C16: for a page whose paragraphs are all shorter than 20 characters the
\* extraction reports insufficient content, not a success; stated here for
\* the pages that have no title either.
C16_ShortParagraphsInsufficient ==
    (pc = "done" /\ op \in {"scrapeOriginalArticle", "scrapeArticle"}
                 /\ doc.titleLen = 0 /\ Len(doc.paras) > 0
                 /\ \A k \in 1..Len(doc.paras) : doc.paras[k].len < 20)
    => extracted.kind = "insufficient"

(***************************************************************************)
(* Replies of the single-URL endpoints.                                    *)
(***************************************************************************)
\* C17: no result with success=false, of the orchestrator or of an endpoint,
\* carries a populated content field: a failure result has no extracted
\* title and no extracted content, whatever pages the target delivered.
C17_FailureCarriesNoContent ==
    result.kind = "error" => result.data.contentLen = 0 /\ result.data.titleLen = 0

\* A request to /api/scrape of part_001 failed although a GET had delivered
\* a page with content.
C17_Witness ==
    /\ op = "apiScrape_p1" /\ pc = "done" /\ result.kind = "error"
    /\ \E i \in 1..Len(outcomes) : outcomes[i].page.contentLen > 0

\* C18: every response of the article endpoints has success=true with the
\* extracted data and no error, or success=false with an error string; none
\* has success=true around an error field.
C18_SuccessOrError ==
    (op \in {"apiArticle", "apiArticle_p0"} /\ pc = "done") =>
        \/ result.kind = "success" /\ result.err.msg = ""
        \/ result.kind = "error" /\ result.err.msg # ""

\* Every GET of the request was issued and met the same answer.
TargetAnswered(kind, status) ==
    /\ outcomes # <<>>
    /\ \A i \in 1..Len(outcomes) :
          outcomes[i].kind = kind /\ outcomes[i].status = status

\* C19: the failure reply of /api/scrape has status 403 when the target
\* answered 403, 404 when it answered 404, 408 when the fetch timed out, 400
\* for a missing or invalid url, and 500 for another failure (here: the
\* target answered 500).
C19_StatusMapping ==
    (op \in {"apiScrape", "apiScrape_p1"} /\ pc = "done" /\ result.kind = "error") =>
        /\ (url = NoUrl \/ ~isValidUrl(url)) => result.err.status = 400
        /\ TargetAnswered("http", 403) => result.err.status = 403
        /\ TargetAnswered("http", 404) => result.err.status = 404
        /\ TargetAnswered("timeout", NoStatus) => result.err.status = 408
        /\ TargetAnswered("http", 500) => result.err.status = 500

\* The url parameter is missing or is not an http or https URL.
BadUrl(s) == s = NoUrl \/ ~ParsesAsUrl(s) \/ s[1] \notin {"http://", "https://"}

\* The request is handled in single-URL mode (type=rss is told by the url
\* <<"rss">> under the handler of scrape.js).
SingleUrlMode ==
    \/ op = "apiScrape_p1"
    \/ op = "apiScrape" /\ url # <<"rss">>

\* C20: in single-URL mode a request whose url is missing or is not an http
\* or https URL issues no GET, and is answered with status 400 and
\* success=false.
C20_BadUrlRejectedBeforeFetch ==
    (SingleUrlMode /\ BadUrl(url)) =>
        /\ gets = 0
        /\ pc \in {"start", "done"}
        /\ pc = "done" => result.kind = "error" /\ result.err.status = 400

\* An ftp URL was answered 400 by /api/scrape of part_001 without a GET.
C20_Witness ==
    /\ op = "apiScrape_p1" /\ pc = "done"
    /\ ParsesAsUrl(url) /\ url[1] = "ftp://"
    /\ result.kind = "error" /\ result.err.status = 400 /\ gets = 0

(***************************************************************************)
(* The final error of scrapeArticle.                                       *)
(***************************************************************************)
\* C21: when scrapeArticle fails, the attempt count its final error states
\* equals the number of GETs made, also when a non-retriable error cut the
\* loop short.
C21_StatedAttemptsAreGets ==
    (op = "scrapeArticle" /\ pc = "done" /\ result.kind = "error") =>
        StatedAttempts(result.err) = gets

(***************************************************************************)
(* The cascade of resolveGoogleNewsUrl.                                    *)
(***************************************************************************)
\* The script URLs on another host than the aggregator's.
ForeignScripts(scripts) ==
    {scripts[i] : i \in {j \in 1..Len(scripts) : ForeignAbsolute(scripts[j])}}

\* What the cascade over the answer yields: the first of Location, meta
\* refresh and canonical link that is a URL on another host, else a script
\* URL on another host, else the input link.
CascadeAllows(link, resp) ==
    IF ForeignAbsolute(resp.location) THEN {resp.location}
    ELSE IF ForeignAbsolute(resp.doc.meta) THEN {resp.doc.meta}
    ELSE IF ForeignAbsolute(resp.doc.canonical) THEN {resp.doc.canonical}
    ELSE IF ForeignScripts(resp.doc.scripts) # {} THEN ForeignScripts(resp.doc.scripts)
    ELSE {link}

\* C22: on an answered GET, resolveGoogleNewsUrl returns the result of the
\* first of the steps Location header, meta refresh, canonical link, script
\* URLs that yields a non-aggregator URL, and the input link only when none
\* of them yields one.
C22_FirstYieldingStep ==
    (op = "resolveGoogleNewsUrl" /\ pc = "done" /\ gets = 1
        /\ outcomes[1].kind = "http" /\ ResolverValidateStatus(outcomes[1].status))
    => result.value \in CascadeAllows(url, outcomes[1])

(***************************************************************************)
(* Field selection: the candidate-selector cascades of the extractors      *)
(* (src/api/scrape.js:597-669, src/unnamed/part_000:92-146,                *)
(* src/unnamed/part_001:400-416 and 673-708).                              *)
(***************************************************************************)
MaxCands == 3

\* What a candidate selector finds in the document: no element, an element
\* without text, one with text below the field's threshold, one above it.
Sizes == {"none", "empty", "short", "long"}
TitleLen(size) == CASE size = "short" -> 5 [] size = "long" -> 20 [] OTHER -> 0
BodyLen(size) == CASE size = "short" -> 150 [] size = "long" -> 250 [] OTHER -> 0

\* The candidates of a selector list, by position.
Label == <<"c1", "c2", "c3", "c4">>

\* A text value: its length and the candidates whose text it holds.
Text(len, from) == [len |-> len, from |-> from]
NoText == Text(0, {})
TextOf(len, label) == IF len = 0 THEN NoText ELSE Text(len, {label})
Joined(a, b) == Text(a.len + b.len, a.from \cup b.from)

\* The title loop (scrape.js:608-617, part_000:102-111): each candidate's
\* text is assigned to title, and the loop breaks on one above 10 characters.
RECURSIVE TitleLoop(_, _, _)
TitleLoop(q, i, title) ==
    IF i > Len(q) THEN title
    ELSE LET t == TextOf(TitleLen(q[i]), Label[i])
         IN  IF t.len > 10 THEN t ELSE TitleLoop(q, i + 1, t)

\* The content loop (scrape.js:639-659, part_000:124-136): the paragraphs of
\* each matched container are appended to content, and the loop breaks once
\* content is above 200 characters.
RECURSIVE ContentLoop(_, _, _)
ContentLoop(q, i, content) ==
    IF i > Len(q) THEN [content |-> content, foundContent |-> FALSE]
    ELSE IF q[i] = "none" THEN ContentLoop(q, i + 1, content)
    ELSE LET c == Joined(content, TextOf(BodyLen(q[i]), Label[i]))
         IN  IF c.len > 200 THEN [content |-> c, foundContent |-> TRUE]
             ELSE ContentLoop(q, i + 1, c)

\* The content of scrapeOriginalArticle (scrape.js:636-669): the loop, then
\* the paragraphs of the whole page appended unless the loop broke.
SelectContent(d) ==
    LET r == ContentLoop(d.cands, 1, NoText)
    IN  IF r.foundContent THEN r.content
        ELSE Joined(r.content, TextOf(d.rest, "rest"))

\* The content of scrapeArticle of part_000 (124-146): the fallback runs
\* only when content is empty.
SelectContent_p0(d) ==
    LET r == ContentLoop(d.cands, 1, NoText)
    IN  IF r.content.len > 0 THEN r.content ELSE TextOf(d.rest, "rest")

\* The length of a candidate's text as the field reads it.
FieldLen(field, size) == IF field = "title" THEN TitleLen(size) ELSE BodyLen(size)

\* extractCleanText (part_001:400-416): the text of the first selector
\* that matches an element, '' when none matches.
RECURSIVE extractCleanText(_, _, _)
extractCleanText(q, i, field) ==
    IF i > Len(q) THEN NoText
    ELSE IF q[i] # "none" THEN TextOf(FieldLen(field, q[i]), Label[i])
    ELSE extractCleanText(q, i + 1, field)

\* siteSelectors (part_001:561-597): the hostnames with an entry; every
\* entry has a title and a content selector.
siteSelectors == {"ndtv.com", "thehindu.com"}

\* The fields of scrapeArticle of part_001 (673-708): the entry's selector
\* as the only candidate when the hostname has an entry, else the generic
\* list; the title falls back to the text of the title tag.
OverrideText(d, field) == TextOf(FieldLen(field, d.override), "override")
SelectTitle_p1(d) ==
    LET title == IF d.host \in siteSelectors THEN OverrideText(d, "title")
                 ELSE extractCleanText(d.cands, 1, "title")
    IN  IF title.len > 0 THEN title ELSE TextOf(TitleLen(d.titleTag), "title")
SelectContent_p1(d) ==
    IF d.host \in siteSelectors THEN OverrideText(d, "content")
    ELSE extractCleanText(d.cands, 1, "content")

(***************************************************************************)
(* Boilerplate: what each extractor removes from the document, and which   *)
(* removed kinds of node its reads still see.                              *)
(***************************************************************************)
BoilerplateKinds == {"script", "nav", "ads", "social", "comments", "player"}

\* The kinds the selector list of each .remove() call covers: of the whole
\* document (scrape.js:595, part_000:90, part_001:131), and of the matched
\* elements only in extractCleanText (part_001:405).
Removed == BoilerplateKinds
Removed_p0 == BoilerplateKinds
RemovedOriginal_p1 == {"script", "nav", "ads", "social"}
RemovedInElements_p1 == {"script", "nav", "ads", "social"}

\* The kinds whose text the reads of an extraction see. scrapeArticle of
\* part_001 removes nothing from the document: its blocking test reads the
\* text of the whole body (667-670; whether .text() includes script text
\* depends on the cheerio release), extractCleanText reads the matched
\* elements after its own removal, and extractCategory reads the nav links
\* (part_001:528).
Seen(present, removed) == present \ removed
SeenArticle_p1(present, scriptText) ==
    (present \ (IF scriptText THEN {} ELSE {"script"}))
    \cup Seen(present, RemovedInElements_p1)
    \cup (present \cap {"nav"})

\* The pages of the field selection: the hostname, what the entry's
\* selector and each generic candidate find, the title tag, the length of
\* the page's paragraphs outside the containers, the boilerplate present.
SelectHosts == {"ndtv.com", "example.com"}
CandLists == UNION {[1..n -> Sizes] : n \in 1..MaxCands}
SelectPages ==
    [host : SelectHosts, override : Sizes, cands : CandLists,
     titleTag : {"empty", "long"}, rest : {0, 60}, present : {{}}]
BoilerPages ==
    [host : {"example.com"}, override : {"none"}, cands : {<<"long">>},
     titleTag : {"long"}, rest : {0}, present : SUBSET BoilerplateKinds]

SelectOps == {"selectTitle", "selectContent", "selectContent_p0", "extractCleanText",
              "selectTitle_p1", "selectContent_p1"}
BoilerOps == {"scrapeOriginalArticle", "scrapeOriginalArticle_p1", "scrapeArticle",
              "scrapeArticle_p0"}

Selected(value, seen) == [kind |-> "selected", value |-> value, seen |-> seen]

selectField ==
    /\ op \in SelectOps /\ pc = "fetched"
    /\ extracted' = Selected(
          CASE op = "selectTitle" -> TitleLoop(doc.cands, 1, NoText)
            [] op = "selectContent" -> SelectContent(doc)
            [] op = "selectContent_p0" -> SelectContent_p0(doc)
            [] op = "extractCleanText" -> extractCleanText(doc.cands, 1, "content")
            [] op = "selectTitle_p1" -> SelectTitle_p1(doc)
            [] op = "selectContent_p1" -> SelectContent_p1(doc), {})
    /\ pc' = "done"
    /\ UNCHANGED <<op, url, fetchVars, result, includeContent, discovery, cands, idx,
                   articles, calls, limit, doc>>

\* The removal and the reads of the three extractors that strip the document.
stripAndRead ==
    /\ op \in BoilerOps \ {"scrapeArticle"} /\ pc = "fetched"
    /\ extracted' = Selected(NoText,
          Seen(doc.present, CASE op = "scrapeOriginalArticle" -> Removed
                              [] op = "scrapeOriginalArticle_p1" -> RemovedOriginal_p1
                              [] op = "scrapeArticle_p0" -> Removed_p0))
    /\ pc' = "done"
    /\ UNCHANGED <<op, url, fetchVars, result, includeContent, discovery, cands, idx,
                   articles, calls, limit, doc>>

\* The reads of scrapeArticle of part_001.
readArticle_p1 ==
    /\ op = "scrapeArticle" /\ pc = "fetched"
    /\ \E scriptText \in BOOLEAN :
          extracted' = Selected(NoText, SeenArticle_p1(doc.present, scriptText))
    /\ pc' = "done"
    /\ UNCHANGED <<op, url, fetchVars, result, includeContent, discovery, cands, idx,
                   articles, calls, limit, doc>>

SelectInit ==
    /\ \/ op \in SelectOps /\ doc \in SelectPages
       \/ op \in BoilerOps /\ doc \in BoilerPages
    /\ url = ForeignUrl
    /\ pc = "fetched"
    /\ attempt = 1
    /\ gets = 1
    /\ outcomes = <<>>
    /\ lastError = NoError
    /\ result = NoResult
    /\ includeContent = FALSE
    /\ discovery = "none"
    /\ cands = <<>>
    /\ idx = 1
    /\ articles = <<>>
    /\ calls = <<>>
    /\ limit = 0
    /\ extracted = NotExtracted

SelectNext == selectField \/ stripAndRead \/ readArticle_p1

SelectSpec == SelectInit /\ [][SelectNext]_vars

\* The first candidate whose text is above the threshold; 0 when none is.
Winner(q, field, threshold) ==
    LET above == {i \in 1..Len(q) : FieldLen(field, q[i]) > threshold}
    IN  IF above = {} THEN 0 ELSE Min(above)

\* The field's value is the text of the winner alone, and without a
\* winner it holds no candidate's text.
WinnerAlone(field, threshold) ==
    LET w == Winner(doc.cands, field, threshold)
    IN  IF w > 0 THEN extracted.value = Text(FieldLen(field, doc.cands[w]), {Label[w]})
        ELSE extracted.value.from \subseteq {"rest"}

\* C23: the field's value is the text of the first candidate above the
\* field's threshold (title 10, body 200); a candidate with empty or
\* below-threshold text neither stops the cascade nor is part of the value.
C23_FirstCandidateAboveThreshold ==
    pc = "done" =>
        /\ op = "selectTitle" => WinnerAlone("title", 10)
        /\ op \in {"selectContent", "selectContent_p0", "extractCleanText"}
              => WinnerAlone("content", 200)

\* C24: on a hostname with an entry in the override table the entry's
\* selector is tried first, and the generic list still gives the field when
\* the entry's selector yields nothing.
C24_OverrideThenGeneric ==
    (pc = "done" /\ op \in {"selectTitle_p1", "selectContent_p1"}
        /\ doc.host \in siteSelectors) =>
        LET field == IF op = "selectTitle_p1" THEN "title" ELSE "content"
            generic == {i \in 1..Len(doc.cands) : FieldLen(field, doc.cands[i]) > 0}
        IN  /\ FieldLen(field, doc.override) > 0 => extracted.value.from = {"override"}
            /\ (FieldLen(field, doc.override) = 0 /\ generic # {})
                  => extracted.value.len > 0

\* C25: the boilerplate nodes are removed from the whole document before
\* any field or check reads it: no read sees the text of such a node.
C25_NoBoilerplateSeen ==
    (pc = "done" /\ op \in BoilerOps) => extracted.seen = {}

(***************************************************************************)
(* Order of the sources and of the calls in a batch.                       *)
(***************************************************************************)
\* C26: the feed is the primary source of candidates and the search page a
\* fallback: when the candidates are those of the search page, the feed was
\* read before it (the GET of the search page was not the first one).
C26_FeedBeforeSearchPage ==
    (op = "getGoogleNewsRSS" /\ discovery = "search") => gets >= 2

(***************************************************************************)
(* The item loops step by step: the first loop and the RSS loop of         *)
(* getGoogleNewsRSS (src/api/scrape.js:431-482, 508-560) and the loop of   *)
(* app.get('/api/news') (src/unnamed/part_000:252-277). calls is the log   *)
(* of what happened: the start and the end of each network call, and each  *)
(* delay that elapsed.                                                     *)
(***************************************************************************)
LoopOps == {"searchLoop", "rssLoop", "newsLoop_p0"}

Event(what, item, phase) == [what |-> what, item |-> item, phase |-> phase]

\* A call that is not awaited: the loop goes on at once.
Await_NotAwaited(waiting) == "next"

\* await: the loop goes on only when the call has ended.
Await(waiting) == waiting

\* maxRetries of the extractor each loop calls: scrapeOriginalArticle
\* (scrape.js:570), and scrapeArticle of part_000, which has no retry.
LoopRetries == IF op = "newsLoop_p0" THEN 1 ELSE maxRetries("scrapeOriginalArticle")

\* The call of the resolver (scrape.js:437, 535; part_000:257). The one of
\* scrape.js returns without a GET when the link decodes (scrape.js:306-309).
loopResolveStart ==
    /\ op \in LoopOps /\ pc = "item"
    /\ \/ /\ calls' = Append(calls, Event("resolve", idx, "start"))
          /\ gets' = gets + 1
          /\ pc' = Await("resolving")
       \/ /\ op # "newsLoop_p0"
          /\ pc' = "extract"
          /\ UNCHANGED <<calls, gets>>
    /\ UNCHANGED <<op, url, attempt, outcomes, lastError, result, includeContent,
                   discovery, cands, idx, articles, limit, doc, extracted>>

\* The resolver's GET ended, answered or timed out. scrape.js: a link on
\* another host goes to the extractor, an unresolved one to the else branch
\* and the delay. part_000: the resolver may throw into the catch block,
\* otherwise the link goes to the extractor.
loopResolveEnd ==
    /\ op \in LoopOps /\ pc = "resolving"
    /\ calls' = Append(calls, Event("resolve", idx, "end"))
    /\ \E out \in {"foreign", "aggregator", "threw"} :
          /\ out = "threw" => op = "newsLoop_p0"
          /\ pc' = IF out = "threw" THEN "next"
                   ELSE IF out = "foreign" \/ op = "newsLoop_p0" THEN "extract"
                   ELSE "delay"
    /\ UNCHANGED <<op, url, attempt, gets, outcomes, lastError, result, includeContent,
                   discovery, cands, idx, articles, limit, doc, extracted>>

\* One GET of the extractor (scrape.js:442, 542 over 573-589; part_000:266).
loopExtractStart ==
    /\ op \in LoopOps /\ pc = "extract"
    /\ calls' = Append(calls, Event("extract", idx, "start"))
    /\ gets' = gets + 1
    /\ pc' = Await("extracting")
    /\ UNCHANGED <<op, url, attempt, outcomes, lastError, result, includeContent,
                   discovery, cands, idx, articles, limit, doc, extracted>>

\* The GET ended. A failure is retried up to maxRetries; scrapeOriginalArticle
\* then throws into the item's catch block (scrape.js:469, 552), which has
\* no delay, while scrapeArticle of part_000 returns its error object and the
\* loop goes on to the delay.
loopExtractEnd ==
    /\ op \in LoopOps /\ pc = "extracting"
    /\ calls' = Append(calls, Event("extract", idx, "end"))
    /\ \E ok \in BOOLEAN :
          IF ok \/ op = "newsLoop_p0"
          THEN pc' = "delay" /\ UNCHANGED attempt
          ELSE IF attempt < LoopRetries
          THEN pc' = "extract" /\ attempt' = attempt + 1
          ELSE pc' = "next" /\ UNCHANGED attempt
    /\ UNCHANGED <<op, url, gets, outcomes, lastError, result, includeContent,
                   discovery, cands, idx, articles, limit, doc, extracted>>

\* await new Promise(resolve => setTimeout(resolve, ...)) at the end of the
\* try block (scrape.js:466, 551; part_000:272).
loopDelay ==
    /\ op \in LoopOps /\ pc = "delay"
    /\ calls' = Append(calls, Event("delay", idx, "elapsed"))
    /\ pc' = "next"
    /\ UNCHANGED <<op, url, attempt, gets, outcomes, lastError, result, includeContent,
                   discovery, cands, idx, articles, limit, doc, extracted>>

\* The next pass of the for loop, or its end.
loopNext ==
    /\ op \in LoopOps /\ pc = "next"
    /\ idx' = idx + 1
    /\ attempt' = 1
    /\ pc' = IF idx + 1 > Len(cands) THEN "done" ELSE "item"
    /\ UNCHANGED <<op, url, gets, outcomes, lastError, result, includeContent,
                   discovery, cands, articles, calls, limit, doc, extracted>>

LoopInit ==
    /\ op \in LoopOps
    /\ url = <<"rss">>
    /\ pc = "item"
    /\ attempt = 1
    /\ gets = 0
    /\ outcomes = <<>>
    /\ lastError = NoError
    /\ result = NoResult
    /\ includeContent = TRUE
    /\ discovery = IF op = "searchLoop" THEN "search" ELSE "rss"
    /\ cands \in SeqsUpTo(SearchArticles, MaxItems) \ {<<>>}
    /\ idx = 1
    /\ articles = <<>>
    /\ calls = <<>>
    /\ limit = 0
    /\ doc = NoDocument
    /\ extracted = NotExtracted

LoopNext ==
    \/ loopResolveStart
    \/ loopResolveEnd
    \/ loopExtractStart
    \/ loopExtractEnd
    \/ loopDelay
    \/ loopNext

LoopSpec == LoopInit /\ [][LoopNext]_vars

\* The positions of the log with a network call's start, and with its end.
Starts == {k \in 1..Len(calls) : calls[k].phase = "start"}
Ends == {k \in 1..Len(calls) : calls[k].phase = "end"}

\* C27: the delay elapses between the end of one item's processing and the
\* first network call of the next item, however the earlier item ended: a
\* call of an item after the first starts only after the delay of the item
\* before it.
C27_DelayBetweenItems ==
    op \in LoopOps =>
        \A k \in Starts :
            calls[k].item > 1 =>
                \E m \in 1..(k - 1) :
                    calls[m] = Event("delay", calls[k].item - 1, "elapsed")

\* C28: at most one network call of a batch is in flight at any time, and
\* it is a call of the current item: every call of an item, retries
\* included, has ended when a call of the next item starts.
C28_OneCallInFlight ==
    op \in LoopOps =>
        /\ Cardinality(Starts) - Cardinality(Ends) \in {0, 1}
        /\ \A k \in Starts :
              calls[k].item < idx => \E m \in Ends : m > k /\ calls[m].item = calls[k].item
        /\ \A k \in Starts : calls[k].item <= idx

\* The extractor's GET for the second item is in flight after the first
\* item's extraction was retried.
C28_Witness ==
    /\ op = "searchLoop" /\ pc = "extracting" /\ idx = 2
    /\ Cardinality(Starts) - Cardinality(Ends) = 1
    /\ Cardinality({k \in Starts : calls[k].item = 1 /\ calls[k].what = "extract"}) = 2

(***************************************************************************)
(* The batch response of /api/scrape.                                      *)
(***************************************************************************)
\* C29: in a successful batch response of /api/scrape the total equals the
\* number of articles in the list, also when the direct-source fallback
\* replaced the articles.
C29_TotalIsListLength ==
    (op = "apiScrapeRss" /\ pc = "done" /\ result.kind = "success")
    => result.total = Len(articles)

\* C30: a request is handled as a batch feed request only when the caller
\* asked for the feed (type=rss or url 'rss', here the url <<"rss">>); a
\* single-URL request for a valid URL is never answered with a feed listing.
C30_FeedOnlyWhenAsked ==
    (op = "apiScrape" /\ result.kind = "batch") => url = <<"rss">>

====
